---- MODULE Spec2Model ----
(***************************************************************************)
(* Model of the genetic-algorithm optimizer for computer configurations:  *)
(* models.Computer, the fitness calculator, the genetic operators and the *)
(* generation loop of algorithm.computer_generator.ComputerGenerator.     *)
(*                                                                         *)
(* Numbers.  The program computes with floats; the model computes with    *)
(* integers in fixed point.  Fitness and every sub-score are in           *)
(* thousandths (1.0 is 1000), truncated; rates (crossover, mutation) are  *)
(* in ten-thousandths (0.1 is 1000, 1.0 is 10000); elitism_percentage is   *)
(* in hundredths (0.5 is 50); diversity is in units of 1/6000 so that the *)
(* per-type ratios of up to six makers are exact.                          *)
(*                                                                         *)
(* Randomness.  random.random() < p, random.choice and random.sample are  *)
(* nondeterministic choices over the outcomes they can produce.           *)
(***************************************************************************)
EXTENDS Integers, Sequences, FiniteSets, TLC

VARIABLES
    cat,              \* the component lists handed to the operators (DataManager.get_*)
    cfg,              \* constructor arguments and UserPreferences
    pc,               \* position of the running call
    population,       \* ComputerGenerator.population
    next_generation,  \* run: next_generation
    generation,       \* run: the loop variable (NoGeneration while unbound)
    elite_count,      \* run: elite_count
    child1,           \* run: child1
    child2,           \* run: child2
    mutation_rate,    \* ComputerGenerator.mutation_rate / Mutator.mutation_rate
    best_cases,       \* StatisticsTracker.best_cases
    worst_cases,      \* StatisticsTracker.worst_cases
    avg_cases,        \* StatisticsTracker.avg_cases
    diversity_history,\* StatisticsTracker.diversity_history
    generation0,      \* the population produced by generate_initial_population (history)
    best_computer,    \* run: best_computer
    stats,            \* run: stats
    op                \* operands and result of a single operator call

vars == <<cat, cfg, pc, population, next_generation, generation, elite_count,
          child1, child2, mutation_rate, best_cases, worst_cases, avg_cases,
          diversity_history, generation0, best_computer, stats, op>>

----------------------------------------------------------------------------
(* Bounds of the model *)

MaxPopulationSize == 4
MaxTournamentSize == 3
MaxGenerations == 23
MaxRounds == 2

----------------------------------------------------------------------------
(* Small helpers *)

Min(a, b) == IF a <= b THEN a ELSE b
Max(a, b) == IF a >= b THEN a ELSE b
Abs(a) == IF a >= 0 THEN a ELSE -a

RECURSIVE SumSeq(_)
SumSeq(s) == IF s = <<>> THEN 0 ELSE Head(s) + SumSeq(Tail(s))

\* Python's int(): truncation toward zero of n/d, d > 0
TruncDiv(n, d) == IF n >= 0 THEN n \div d ELSE -((-n) \div d)

NoGPU == 0          \* the None entry of the GPU list
NoGeneration == -1  \* the loop variable before the first iteration binds it
None == [none |-> TRUE]

----------------------------------------------------------------------------
(* The component records of models.py: only the attributes the optimizer  *)
(* reads.  A component is referred to by its index in its table.           *)

CPU ==
    <<[maker |-> "Intel", model |-> "i3", performance |-> 5, price |-> 100,
       power_consumption |-> 120, has_integrated_graphics |-> TRUE,
       integrated_graphics_power |-> 15, socket_type |-> "LGA1700"],
      [maker |-> "AMD", model |-> "R5", performance |-> 40, price |-> 300,
       power_consumption |-> 65, has_integrated_graphics |-> FALSE,
       integrated_graphics_power |-> 0, socket_type |-> "AM5"],
      [maker |-> "Intel", model |-> "i9", performance |-> 90, price |-> 500,
       power_consumption |-> 125, has_integrated_graphics |-> TRUE,
       integrated_graphics_power |-> 30, socket_type |-> "LGA1700"],
      [maker |-> "Intel", model |-> "sample", performance |-> 10, price |-> 0,
       power_consumption |-> 0, has_integrated_graphics |-> TRUE,
       integrated_graphics_power |-> 5, socket_type |-> "LGA1700"],
      [maker |-> "AMD", model |-> "TR-32", performance |-> 95, price |-> 11170,
       power_consumption |-> 280, has_integrated_graphics |-> FALSE,
       integrated_graphics_power |-> 0, socket_type |-> "sTR5"],
      [maker |-> "AMD", model |-> "TR-64", performance |-> 100, price |-> 19670,
       power_consumption |-> 350, has_integrated_graphics |-> FALSE,
       integrated_graphics_power |-> 0, socket_type |-> "sTR5"]>>

GPU ==
    <<[maker |-> "NVIDIA", price |-> 200, power_consumption |-> 120,
       power |-> 45, length_mm |-> 240],
      [maker |-> "AMD", price |-> 600, power_consumption |-> 300,
       power |-> 85, length_mm |-> 330],
      [maker |-> "Intel", price |-> 0, power_consumption |-> 0,
       power |-> 20, length_mm |-> 200]>>

RAM ==
    <<[maker |-> "Kingston", capacity |-> 8, frequency |-> 3200,
       type |-> "DDR4", price |-> 30],
      [maker |-> "Corsair", capacity |-> 32, frequency |-> 5600,
       type |-> "DDR5", price |-> 120],
      [maker |-> "Kingston", capacity |-> 16, frequency |-> 3200,
       type |-> "DDR4", price |-> 55],
      [maker |-> "Corsair", capacity |-> 64, frequency |-> 5600,
       type |-> "DDR5", price |-> 240]>>

Storage ==
    <<[maker |-> "Kingston", type |-> "SSD", capacity |-> 480, price |-> 40],
      [maker |-> "Seagate", type |-> "HDD", capacity |-> 2000, price |-> 60],
      [maker |-> "Samsung", type |-> "SSD", capacity |-> 1000, price |-> 90],
      [maker |-> "Samsung", type |-> "SSD", capacity |-> 4000, price |-> 300]>>

Motherboard ==
    <<[maker |-> "ASUS", price |-> 120, power_consumption |-> 30,
       max_ram_capacity |-> 64, max_ram_frequency |-> 3600,
       ram_socket_type |-> "DDR4", compatible_cpus |-> {"i3", "i9"},
       form_factor |-> "ATX", socket_type |-> "LGA1700"],
      [maker |-> "MSI", price |-> 180, power_consumption |-> 40,
       max_ram_capacity |-> 128, max_ram_frequency |-> 6000,
       ram_socket_type |-> "DDR5", compatible_cpus |-> {"R5"},
       form_factor |-> "Micro-ATX", socket_type |-> "AM5"]>>

PSU ==
    <<[maker |-> "EVGA", capacity |-> 450, price |-> 50],
      [maker |-> "Corsair", capacity |-> 850, price |-> 120]>>

Cooling ==
    <<[maker |-> "Noctua", type |-> "Air", cooling_capacity |-> 95,
       price |-> 30, height_mm |-> 155],
      [maker |-> "NZXT", type |-> "Liquid", cooling_capacity |-> 250,
       price |-> 100, height_mm |-> 240]>>

\* cooling_support is a dict: the keys present, and the values under them
Case ==
    <<[maker |-> "NZXT", form_factors |-> {"ATX", "Micro-ATX"},
       max_gpu_length |-> 300,
       cooling_support |-> [keys |-> {"max_air_cooler_height", "radiator_support"},
                            max_air_cooler_height |-> 160,
                            radiator_support |-> {240}],
       price |-> 60],
      [maker |-> "Cooler Master", form_factors |-> {"Mini-ITX"},
       max_gpu_length |-> 200,
       cooling_support |-> [keys |-> {"max_air_cooler_height"},
                            max_air_cooler_height |-> 80,
                            radiator_support |-> {}],
       price |-> 40]>>

\* Motherboard.is_cpu_compatible
is_cpu_compatible(mb, cpu) ==
    LET model_compatible == CPU[cpu].model \in Motherboard[mb].compatible_cpus
        socket_compatible == CPU[cpu].socket_type = Motherboard[mb].socket_type
    IN  model_compatible /\ socket_compatible

\* Motherboard.is_ram_compatible
is_ram_compatible(mb, ram) ==
    /\ RAM[ram].type = Motherboard[mb].ram_socket_type
    /\ RAM[ram].frequency <= Motherboard[mb].max_ram_frequency
    /\ RAM[ram].capacity <= Motherboard[mb].max_ram_capacity

\* Case.supports_motherboard_form_factor
supports_motherboard_form_factor(case, form_factor) ==
    form_factor \in Case[case].form_factors

\* Case.can_fit_gpu (called with a GPU that is not None)
can_fit_gpu(case, gpu) == GPU[gpu].length_mm <= Case[case].max_gpu_length

\* Case.supports_cooling_type
supports_cooling_type(case, cooling_type) ==
    IF cooling_type = "Air"
    THEN "max_air_cooler_height" \in Case[case].cooling_support.keys
    ELSE IF cooling_type = "Liquid"
         THEN "radiator_support" \in Case[case].cooling_support.keys
         ELSE FALSE

\* Case.can_fit_all_components
can_fit_all_components(case, computer) ==
    LET support == Case[case].cooling_support
        air_height == IF "max_air_cooler_height" \in support.keys
                      THEN support.max_air_cooler_height ELSE 0
        radiators == IF "radiator_support" \in support.keys
                     THEN support.radiator_support ELSE {}
    IN  /\ supports_motherboard_form_factor(case, Motherboard[computer.motherboard].form_factor)
        /\ ~(computer.gpu # NoGPU /\ ~can_fit_gpu(case, computer.gpu))
        /\ supports_cooling_type(case, Cooling[computer.cooling].type)
        /\ ~(Cooling[computer.cooling].type = "Air"
             /\ Cooling[computer.cooling].height_mm > air_height)
        /\ ~(Cooling[computer.cooling].type = "Liquid"
             /\ Cooling[computer.cooling].height_mm \notin radiators)

\* Case.is_compatible_with_motherboard
is_compatible_with_motherboard(case, mb) ==
    supports_motherboard_form_factor(case, Motherboard[mb].form_factor)

----------------------------------------------------------------------------
(* models.Computer *)

Slots == {"cpu", "gpu", "ram", "storage", "motherboard", "psu", "cooling", "case"}

\* a sum that leaves the motherboard out
PriceWithoutMotherboard(c) ==
    CPU[c.cpu].price
    + (IF c.gpu # NoGPU THEN GPU[c.gpu].price ELSE 0)
    + RAM[c.ram].price
    + Storage[c.storage].price
    + PSU[c.psu].price
    + Cooling[c.cooling].price
    + Case[c.case].price
    + SumSeq([i \in 1..Len(c.additional_storages) |->
                 Storage[c.additional_storages[i]].price])

\* the sum of Computer.__init__: the price of the components currently held
ComponentsPrice(c) ==
    CPU[c.cpu].price
    + (IF c.gpu # NoGPU THEN GPU[c.gpu].price ELSE 0)
    + RAM[c.ram].price
    + Storage[c.storage].price
    + Motherboard[c.motherboard].price
    + PSU[c.psu].price
    + Cooling[c.cooling].price
    + Case[c.case].price
    + SumSeq([i \in 1..Len(c.additional_storages) |->
                 Storage[c.additional_storages[i]].price])

\* Computer._calculate_estimated_performance.  gaming is in 1/1000,
\* productivity and development in 1/3200, content_creation in 1/1600.
calculate_estimated_performance(c) ==
    LET cpu == CPU[c.cpu]
        ram == RAM[c.ram]
        ssd == IF Storage[c.storage].type = "SSD" THEN 100 ELSE 50
        gaming ==
            IF c.gpu # NoGPU
            THEN Min(100 * 1000,
                     (7 * GPU[c.gpu].power + 3 * cpu.performance) * (100 + ram.capacity))
            ELSE IF cpu.has_integrated_graphics
                 THEN Min(100 * 1000,
                          ((7 * cpu.integrated_graphics_power + 3 * cpu.performance)
                           * (100 + ram.capacity)) \div 2)
                 ELSE 0
        productivity ==
            Min(100 * 3200, 1920 * cpu.performance + 30 * ram.capacity + 320 * ssd)
        content_creation ==
            Min(100 * 1600,
                640 * cpu.performance
                + 480 * (IF c.gpu # NoGPU THEN GPU[c.gpu].power ELSE 0)
                + 10 * ram.capacity
                + (16 * Storage[c.storage].capacity) \div 100)
        development ==
            Min(100 * 3200, 1600 * cpu.performance + 40 * ram.capacity + 320 * ssd)
    IN  [gaming |-> gaming, productivity |-> productivity,
         content_creation |-> content_creation, development |-> development]

\* Computer.__init__: price is summed from the components; estimated_performance
\* is the one passed in, computed only when none (or an empty dict) is passed.
ComputerInit(cpu, gpu, ram, storage, motherboard, psu, cooling, case, fitness, additional_storages, estimated_performance) ==
    LET slots == [cpu |-> cpu, gpu |-> gpu, ram |-> ram, storage |-> storage,
                  motherboard |-> motherboard, psu |-> psu, cooling |-> cooling,
                  case |-> case, additional_storages |-> additional_storages]
    IN  [cpu |-> cpu, gpu |-> gpu, ram |-> ram, storage |-> storage,
         motherboard |-> motherboard, psu |-> psu, cooling |-> cooling,
         case |-> case, additional_storages |-> additional_storages,
         price |-> ComponentsPrice(slots),
         fitness |-> fitness,
         estimated_performance |->
             IF estimated_performance = None
             THEN calculate_estimated_performance(slots)
             ELSE estimated_performance]

\* Computer(cpu, gpu, ram, storage, motherboard, psu, cooling, case)
NewComputer(cpu, gpu, ram, storage, motherboard, psu, cooling, case) ==
    ComputerInit(cpu, gpu, ram, storage, motherboard, psu, cooling, case,
                 0, <<>>, None)

\* Computer.__deepcopy__: a new Computer from copies of the components, the
\* fitness and a copy of estimated_performance
DeepCopy(c) ==
    ComputerInit(c.cpu, c.gpu, c.ram, c.storage, c.motherboard, c.psu,
                 c.cooling, c.case, c.fitness, c.additional_storages,
                 c.estimated_performance)

----------------------------------------------------------------------------
(* algorithm.fitness.usage_scorer.UsageScorer: raw points, not scaled *)

get_education_score(c) ==
    LET cpu == CPU[c.cpu]
        ram == RAM[c.ram]
        st == Storage[c.storage]
    IN  (IF 30 <= cpu.performance /\ cpu.performance <= 60 THEN 10
         ELSE IF cpu.performance > 60 THEN 5 ELSE 0)
      + (IF 8 < ram.capacity /\ ram.capacity <= 16 THEN 8
         ELSE IF ram.capacity > 16 THEN 5 ELSE 0)
      + (IF st.type = "SSD" /\ 128 < st.capacity /\ st.capacity <= 500 THEN 7
         ELSE IF st.type = "SSD" /\ st.capacity > 500 THEN 5 ELSE 0)
      + (IF \/ (c.gpu # NoGPU /\ GPU[c.gpu].power < 40)
            \/ (cpu.has_integrated_graphics /\ cpu.integrated_graphics_power < 60)
         THEN 5 ELSE 0)

get_web_navigation_score(c) ==
    LET cpu == CPU[c.cpu]
        ram == RAM[c.ram]
        st == Storage[c.storage]
    IN  (IF 10 <= cpu.performance /\ cpu.performance <= 30 THEN 8
         ELSE IF cpu.performance > 30 THEN 4 ELSE 0)
      + (IF ram.capacity = 8 THEN 8
         ELSE IF ram.capacity > 8 THEN 4 ELSE 0)
      + (IF st.type = "SSD" /\ st.capacity < 500 THEN 7
         ELSE IF st.type = "SSD" THEN 5 ELSE 0)
      + (IF c.gpu = NoGPU /\ cpu.integrated_graphics_power < 20 THEN 7
         ELSE IF c.gpu = NoGPU THEN 5 ELSE 2)

get_video_editing_score(c) ==
    LET cpu == CPU[c.cpu]
        ram == RAM[c.ram]
        st == Storage[c.storage]
    IN  (IF c.gpu # NoGPU /\ GPU[c.gpu].power >= 60 THEN 10
         ELSE IF c.gpu # NoGPU /\ GPU[c.gpu].power >= 30 THEN 7
         ELSE IF c.gpu # NoGPU THEN 3 ELSE 0)
      + (IF cpu.performance >= 70 THEN 8
         ELSE IF cpu.performance >= 50 THEN 5 ELSE 0)
      + (IF ram.capacity >= 32 THEN 7
         ELSE IF ram.capacity >= 16 THEN 3 ELSE 0)
      + (IF st.type = "SSD" /\ st.capacity > 1000 THEN 5
         ELSE IF st.type = "SSD" THEN 2 ELSE 0)

get_graphics_design_score(c) ==
    LET cpu == CPU[c.cpu]
        ram == RAM[c.ram]
        st == Storage[c.storage]
    IN  (IF c.gpu # NoGPU /\ GPU[c.gpu].power >= 50 THEN 10
         ELSE IF c.gpu # NoGPU /\ GPU[c.gpu].power >= 30 THEN 8
         ELSE IF c.gpu # NoGPU THEN 4 ELSE 0)
      + (IF cpu.performance >= 60 THEN 7
         ELSE IF cpu.performance >= 40 THEN 5 ELSE 0)
      + (IF ram.capacity >= 32 THEN 7
         ELSE IF ram.capacity >= 16 THEN 5 ELSE 0)
      + (IF st.type = "SSD" /\ st.capacity > 1000 THEN 6
         ELSE IF st.type = "SSD" /\ st.capacity > 500 THEN 4 ELSE 0)

get_gaming_score(c) ==
    LET cpu == CPU[c.cpu]
        ram == RAM[c.ram]
        st == Storage[c.storage]
    IN  (IF c.gpu # NoGPU /\ GPU[c.gpu].power >= 70 THEN 12
         ELSE IF c.gpu # NoGPU /\ GPU[c.gpu].power >= 50 THEN 8
         ELSE IF c.gpu # NoGPU THEN 4 ELSE 0)
      + (IF cpu.performance >= 70 THEN 7
         ELSE IF cpu.performance >= 60 THEN 5 ELSE 0)
      + (IF ram.capacity >= 32 THEN 5
         ELSE IF ram.capacity >= 16 THEN 4 ELSE 0)
      + (IF st.type = "SSD" /\ st.capacity >= 1000 THEN 6
         ELSE IF st.type = "SSD" THEN 4 ELSE 0)

get_ofimatica_score(c) ==
    LET cpu == CPU[c.cpu]
        ram == RAM[c.ram]
        st == Storage[c.storage]
    IN  (IF cpu.performance >= 20 THEN 7
         ELSE IF cpu.performance >= 10 THEN 5 ELSE 0)
      + (IF ram.capacity >= 16 THEN 7
         ELSE IF ram.capacity >= 8 THEN 5 ELSE 0)
      + (IF st.capacity > 1000 THEN 7
         ELSE IF st.capacity > 500 THEN 5 ELSE 0)
      + (IF c.gpu = NoGPU THEN 5
         ELSE IF GPU[c.gpu].power < 30 THEN 4 ELSE 2)

get_architecture_score(c) ==
    LET cpu == CPU[c.cpu]
        ram == RAM[c.ram]
        st == Storage[c.storage]
    IN  (IF c.gpu # NoGPU /\ GPU[c.gpu].power >= 80 THEN 10
         ELSE IF c.gpu # NoGPU /\ GPU[c.gpu].power >= 60 THEN 7
         ELSE IF c.gpu # NoGPU THEN 3 ELSE 0)
      + (IF cpu.performance >= 75 THEN 8
         ELSE IF cpu.performance >= 60 THEN 5 ELSE 0)
      + (IF ram.capacity >= 64 THEN 7
         ELSE IF ram.capacity >= 32 THEN 5 ELSE 0)
      + (IF st.type = "SSD" /\ st.capacity > 2000 THEN 5
         ELSE IF st.type = "SSD" /\ st.capacity > 1000 THEN 3 ELSE 0)

\* UsageScorer.score_for_usage: usage_scores.get(usage, 0.0)
score_for_usage(c, usage) ==
    CASE usage = "ofimática" -> get_ofimatica_score(c)
      [] usage = "juegos" -> get_gaming_score(c)
      [] usage = "diseño gráfico" -> get_graphics_design_score(c)
      [] usage = "edición de video" -> get_video_editing_score(c)
      [] usage = "navegación web" -> get_web_navigation_score(c)
      [] usage = "educación" -> get_education_score(c)
      [] usage = "arquitectura" -> get_architecture_score(c)
      [] OTHER -> 0

----------------------------------------------------------------------------
(* models.Computer scoring helpers and                                     *)
(* algorithm.fitness.fitness_calculator.FitnessCalculator.                 *)
(* Scores are in thousandths; prefs is the UserPreferences record.         *)

\* FitnessCalculator.__init__: the default fitness_weights
fitness_weights ==
    [price_range |-> 20, compatibility |-> 25, usage_match |-> 30,
     power_balance |-> 5, bottleneck |-> 10, value_cpu |-> 5, value_gpu |-> 5]

\* Computer.is_bottleneck (TRUE means balanced)
is_bottleneck(c) ==
    IF c.gpu = NoGPU THEN TRUE
    ELSE Abs(CPU[c.cpu].performance - GPU[c.gpu].power) <= 20

\* Computer.points_for_relation_quality_cpu, in thousandths of a point
points_for_relation_quality_cpu(c) ==
    IF CPU[c.cpu].price <= 0 THEN 0
    ELSE Min(10 * 1000, (CPU[c.cpu].performance * 100 * 1000) \div CPU[c.cpu].price)

\* Computer.points_for_relation_quality_gpu, in thousandths of a point
points_for_relation_quality_gpu(c) ==
    IF c.gpu = NoGPU THEN 0
    ELSE IF GPU[c.gpu].price <= 0 THEN 0
    ELSE Min(10 * 1000, (GPU[c.gpu].power * 650 * 1000) \div GPU[c.gpu].price)

\* FitnessCalculator.is_within_price_range: it reads the stored price
is_within_price_range(c, prefs) ==
    prefs.min_price <= c.price /\ c.price <= prefs.max_price

\* calculate_price_range_score divides by max_distance, which is 0 for
\* min_price = max_price: ZeroDivisionError for a price within the range
price_range_raises(c, prefs) ==
    is_within_price_range(c, prefs) /\ prefs.max_price - prefs.min_price = 0

\* a term that measures the distance from min_price instead of the midpoint
price_range_score_from_min(c, prefs) ==
    IF ~is_within_price_range(c, prefs) THEN 0
    ELSE LET distance2 == 2 * Abs(c.price - prefs.min_price)
             max_distance2 == prefs.max_price - prefs.min_price
         IN  1000 - Min(1000, (1000 * distance2) \div max_distance2)

\* FitnessCalculator.calculate_price_range_score, where it does not raise
\*   distance / max_distance = |2 price - (min + max)| / (max - min)
calculate_price_range_score(c, prefs) ==
    IF ~is_within_price_range(c, prefs) THEN 0
    ELSE LET distance2 == Abs(2 * c.price - (prefs.min_price + prefs.max_price))
             max_distance2 == prefs.max_price - prefs.min_price
         IN  1000 - Min(1000, (1000 * distance2) \div max_distance2)

\* FitnessCalculator.calculate_compatibility_score
calculate_compatibility_score(c) ==
    LET cpu_mb == IF is_cpu_compatible(c.motherboard, c.cpu) THEN 400 ELSE 0
        ram_mb == IF is_ram_compatible(c.motherboard, c.ram) THEN 300 ELSE 0
        gpu_psu == IF c.gpu # NoGPU
                      /\ 10 * GPU[c.gpu].power_consumption <= 7 * PSU[c.psu].capacity
                   THEN 300 ELSE 0
        cool == IF Cooling[c.cooling].cooling_capacity >= CPU[c.cpu].power_consumption
                THEN 200 ELSE 0
        fits == IF can_fit_all_components(c.case, c) THEN 200 ELSE 0
    IN  Min(1000, cpu_mb + ram_mb + gpu_psu + cool + fits)

\* the total power of calculate_power_balance and repair_compatibility
total_power(c) ==
    CPU[c.cpu].power_consumption
    + (IF c.gpu # NoGPU THEN GPU[c.gpu].power_consumption ELSE 0)
    + Motherboard[c.motherboard].power_consumption
    + 50

\* FitnessCalculator.calculate_power_balance, with ratio = capacity / total:
\*   1 - (ratio - 1.5) / 0.5 = (4 total - 2 capacity) / total
calculate_power_balance(c) ==
    LET total == total_power(c)
        capacity == IF total > 0 THEN PSU[c.psu].capacity ELSE 0
        t == IF total > 0 THEN total ELSE 1
    IN  IF capacity < t THEN 0
        ELSE IF 12 * t <= 10 * capacity /\ 10 * capacity <= 15 * t THEN 1000
        ELSE Max(0, TruncDiv(1000 * (4 * t - 2 * capacity), t))

\* FitnessCalculator.calculate_cooling_score, with ratio = capacity / tdp:
\*   1 - (ratio - 1.5) / 2 = (3.5 tdp - capacity) / (2 tdp)
calculate_cooling_score(c) ==
    LET cpu_tdp == CPU[c.cpu].power_consumption
        capacity == IF cpu_tdp > 0 THEN Cooling[c.cooling].cooling_capacity ELSE 0
        t == IF cpu_tdp > 0 THEN cpu_tdp ELSE 1
    IN  IF capacity < t THEN 0
        ELSE IF 10 * capacity <= 15 * t THEN 1000
        ELSE Max(700, TruncDiv(1000 * (7 * t - 2 * capacity), 4 * t))

\* FitnessCalculator.calculate_case_compatibility
calculate_case_compatibility(c) ==
    IF ~supports_motherboard_form_factor(c.case, Motherboard[c.motherboard].form_factor)
    THEN 0
    ELSE IF c.gpu # NoGPU /\ ~can_fit_gpu(c.case, c.gpu) THEN 0
    ELSE IF ~supports_cooling_type(c.case, Cooling[c.cooling].type) THEN 0
    ELSE 1000

\* the raw score divided by 20 instead of 30
get_usage_score_by_20(c, prefs) == (1000 * score_for_usage(c, prefs.usage)) \div 20

\* FitnessCalculator.get_usage_score: raw_score / 30.0
get_usage_score(c, prefs) == (1000 * score_for_usage(c, prefs.usage)) \div 30

\* calculate_fitness raises what calculate_price_range_score raises; the other
\* divisions are guarded (total_power > 0, cpu_tdp > 0, price <= 0)
calculate_fitness_raises(c, prefs) == price_range_raises(c, prefs)

\* calculate_fitness: cpu_value_score, in thousandths
cpu_value_score(c) == Min(1000, points_for_relation_quality_cpu(c) \div 100)

\* calculate_fitness: gpu_value_score, in thousandths
gpu_value_score(c) == Min(1000, points_for_relation_quality_gpu(c) \div 100)

\* FitnessCalculator.calculate_fitness, in thousandths
calculate_fitness(c, prefs) ==
      fitness_weights.price_range * calculate_price_range_score(c, prefs)
    + fitness_weights.compatibility * calculate_compatibility_score(c)
    + fitness_weights.usage_match * get_usage_score(c, prefs)
    + fitness_weights.power_balance * calculate_power_balance(c)
    + fitness_weights.bottleneck * (IF is_bottleneck(c) THEN 1000 ELSE 0)
    + fitness_weights.value_cpu * cpu_value_score(c)
    + fitness_weights.value_gpu * gpu_value_score(c)
    + 5 * calculate_cooling_score(c)
    + 5 * calculate_case_compatibility(c)

\* a fitness computed for the price of the components held instead of the
\* price stored in the Computer
scored_on_components_price(c, prefs) ==
    [c EXCEPT !.fitness = calculate_fitness([c EXCEPT !.price = ComponentsPrice(c)], prefs)]

\* computer.fitness = fitness_calculator.calculate_fitness(computer)
Scored(c, prefs) == [c EXCEPT !.fitness = calculate_fitness(c, prefs)]

----------------------------------------------------------------------------
(* algorithm.operations.selection.TournamentSelection *)

\* random.sample(population, k): the sequences of k distinct positions
Samples(n, k) ==
    {t \in [1..k -> 1..n] : \A i, j \in 1..k : i # j => t[i] # t[j]}

\* max(tournament, key=fitness): the first contestant of maximal fitness
RECURSIVE MaxByFitness(_)
MaxByFitness(s) ==
    IF Len(s) = 1 THEN s[1]
    ELSE LET rest == MaxByFitness(Tail(s))
         IN  IF rest.fitness > s[1].fitness THEN rest ELSE s[1]

\* the size of the sample drawn by select
tournament_k(pop, tournament_size) == Min(tournament_size, Len(pop))

\* random.sample raises ValueError for a negative size, max() for an empty sample
select_raises(pop, tournament_size) == tournament_k(pop, tournament_size) <= 0

\* a selection that returns the first contestant drawn
select_first(pop, t) == pop[t[1]]

\* TournamentSelection.select, the sample being the positions t
select(pop, t) == MaxByFitness([i \in 1..Len(t) |-> pop[t[i]]])

----------------------------------------------------------------------------
(* algorithm.operations.crossover.UniformCrossover *)

\* a crossover whose second child takes the GPU of the parent the first child
\* took it from
crossover_same_gpu(parent1, parent2, mask) ==
    LET child1_ == NewComputer(
            IF mask[1] THEN parent1.cpu ELSE parent2.cpu,
            IF mask[2] THEN parent1.gpu ELSE parent2.gpu,
            IF mask[3] THEN parent1.ram ELSE parent2.ram,
            IF mask[4] THEN parent1.storage ELSE parent2.storage,
            IF mask[5] THEN parent1.motherboard ELSE parent2.motherboard,
            IF mask[6] THEN parent1.psu ELSE parent2.psu,
            IF mask[7] THEN parent1.cooling ELSE parent2.cooling,
            IF mask[8] THEN parent1.case ELSE parent2.case)
        child2_ == NewComputer(
            IF mask[1] THEN parent2.cpu ELSE parent1.cpu,
            IF mask[2] THEN parent1.gpu ELSE parent2.gpu,
            IF mask[3] THEN parent2.ram ELSE parent1.ram,
            IF mask[4] THEN parent2.storage ELSE parent1.storage,
            IF mask[5] THEN parent2.motherboard ELSE parent1.motherboard,
            IF mask[6] THEN parent2.psu ELSE parent1.psu,
            IF mask[7] THEN parent2.cooling ELSE parent1.cooling,
            IF mask[8] THEN parent2.case ELSE parent1.case)
    IN  <<child1_, child2_>>

\* UniformCrossover.crossover; mask is the list of the 8 coin flips
crossover(parent1, parent2, mask) ==
    LET child1_ == NewComputer(
            IF mask[1] THEN parent1.cpu ELSE parent2.cpu,
            IF mask[2] THEN parent1.gpu ELSE parent2.gpu,
            IF mask[3] THEN parent1.ram ELSE parent2.ram,
            IF mask[4] THEN parent1.storage ELSE parent2.storage,
            IF mask[5] THEN parent1.motherboard ELSE parent2.motherboard,
            IF mask[6] THEN parent1.psu ELSE parent2.psu,
            IF mask[7] THEN parent1.cooling ELSE parent2.cooling,
            IF mask[8] THEN parent1.case ELSE parent2.case)
        child2_ == NewComputer(
            IF mask[1] THEN parent2.cpu ELSE parent1.cpu,
            IF mask[2] THEN parent2.gpu ELSE parent1.gpu,
            IF mask[3] THEN parent2.ram ELSE parent1.ram,
            IF mask[4] THEN parent2.storage ELSE parent1.storage,
            IF mask[5] THEN parent2.motherboard ELSE parent1.motherboard,
            IF mask[6] THEN parent2.psu ELSE parent1.psu,
            IF mask[7] THEN parent2.cooling ELSE parent1.cooling,
            IF mask[8] THEN parent2.case ELSE parent1.case)
    IN  <<child1_, child2_>>

\* every outcome of the 8 flips
Masks == BOOLEAN \X BOOLEAN \X BOOLEAN \X BOOLEAN
         \X BOOLEAN \X BOOLEAN \X BOOLEAN \X BOOLEAN

\* The flips that can tell the children apart: a flip for a slot on which the
\* parents agree changes neither child, so it is enumerated as TRUE only.
Flip(a, b) == IF a = b THEN {TRUE} ELSE BOOLEAN
DistinctMasks(parent1, parent2) ==
    Flip(parent1.cpu, parent2.cpu) \X Flip(parent1.gpu, parent2.gpu)
    \X Flip(parent1.ram, parent2.ram) \X Flip(parent1.storage, parent2.storage)
    \X Flip(parent1.motherboard, parent2.motherboard)
    \X Flip(parent1.psu, parent2.psu) \X Flip(parent1.cooling, parent2.cooling)
    \X Flip(parent1.case, parent2.case)

----------------------------------------------------------------------------
(* algorithm.operations.mutation.Mutator *)

Keep == -1   \* random.random() < mutation_rate was false for the slot

\* Mutator.mutate; draw[slot] is Keep or the component random.choice returned.
\* The slots are assigned on the copy: price, fitness and
\* estimated_performance stay those of the copy.
mutate(computer, draw) ==
    LET mutated_computer == DeepCopy(computer)
        new(slot) == IF draw[slot] = Keep THEN mutated_computer[slot] ELSE draw[slot]
    IN  [mutated_computer EXCEPT
            !.cpu = new("cpu"), !.gpu = new("gpu"), !.ram = new("ram"),
            !.storage = new("storage"), !.motherboard = new("motherboard"),
            !.psu = new("psu"), !.cooling = new("cooling"), !.case = new("case")]

\* the component list a slot draws from
SlotList(lists, slot) ==
    CASE slot = "cpu" -> lists.cpus
      [] slot = "gpu" -> lists.gpus
      [] slot = "ram" -> lists.rams
      [] slot = "storage" -> lists.storages
      [] slot = "motherboard" -> lists.motherboards
      [] slot = "psu" -> lists.psus
      [] slot = "cooling" -> lists.coolings
      [] slot = "case" -> lists.cases

\* the outcomes of one slot's test and choice at the given rate
AllSlotDraws(slot, rate, lists) ==
    (IF rate < 10000 THEN {Keep} ELSE {})
    \cup (IF rate > 0 THEN SlotList(lists, slot) ELSE {})

\* every outcome of the 8 tests and choices
MutationDraws(rate, lists) ==
    [cpu : AllSlotDraws("cpu", rate, lists), gpu : AllSlotDraws("gpu", rate, lists),
     ram : AllSlotDraws("ram", rate, lists),
     storage : AllSlotDraws("storage", rate, lists),
     motherboard : AllSlotDraws("motherboard", rate, lists),
     psu : AllSlotDraws("psu", rate, lists),
     cooling : AllSlotDraws("cooling", rate, lists),
     case : AllSlotDraws("case", rate, lists)]

\* The draws of one slot that lead to different results: drawing the component
\* already held is the same as keeping it, so it is enumerated only when the
\* test cannot fail (rate >= 1).
SlotDraws(computer, slot, rate, lists) ==
    IF rate < 10000
    THEN AllSlotDraws(slot, rate, lists) \ {computer[slot]}
    ELSE AllSlotDraws(slot, rate, lists)

DistinctDraws(computer, rate, lists) ==
    [cpu : SlotDraws(computer, "cpu", rate, lists),
     gpu : SlotDraws(computer, "gpu", rate, lists),
     ram : SlotDraws(computer, "ram", rate, lists),
     storage : SlotDraws(computer, "storage", rate, lists),
     motherboard : SlotDraws(computer, "motherboard", rate, lists),
     psu : SlotDraws(computer, "psu", rate, lists),
     cooling : SlotDraws(computer, "cooling", rate, lists),
     case : SlotDraws(computer, "case", rate, lists)]

----------------------------------------------------------------------------
(* algorithm.operations.repair.CompatibilityRepairer *)

\* Fix CPU-Motherboard incompatibility: the results of the first fix-up
repair_cpu_motherboard(r, lists) ==
    IF is_cpu_compatible(r.motherboard, r.cpu) THEN {r}
    ELSE LET compatible_mobos ==
                 {m \in lists.motherboards : is_cpu_compatible(m, r.cpu)}
             compatible_cpus ==
                 {c \in lists.cpus : is_cpu_compatible(r.motherboard, c)}
         IN  (IF compatible_mobos = {} THEN {r}
              ELSE {[r EXCEPT !.motherboard = m] : m \in compatible_mobos})
             \cup
             (IF compatible_cpus = {} THEN {r}
              ELSE {[r EXCEPT !.cpu = c] : c \in compatible_cpus})

\* Fix RAM-Motherboard incompatibility
repair_ram(r, lists) ==
    IF is_ram_compatible(r.motherboard, r.ram) THEN {r}
    ELSE LET compatible_rams ==
                 {m \in lists.rams : is_ram_compatible(r.motherboard, m)}
         IN  IF compatible_rams = {} THEN {r}
             ELSE {[r EXCEPT !.ram = m] : m \in compatible_rams}

\* Fix PSU inadequacy
repair_psu(r, lists) ==
    IF ~(PSU[r.psu].capacity < total_power(r)) THEN {r}
    ELSE LET adequate_psus ==
                 {p \in lists.psus : PSU[p].capacity >= total_power(r)}
         IN  IF adequate_psus = {} THEN {r}
             ELSE {[r EXCEPT !.psu = p] : p \in adequate_psus}

\* Fix case compatibility
repair_case(r, lists) ==
    IF can_fit_all_components(r.case, r) THEN {r}
    ELSE LET compatible_cases ==
                 {k \in lists.cases : can_fit_all_components(k, r)}
         IN  IF compatible_cases = {} THEN {r}
             ELSE {[r EXCEPT !.case = k] : k \in compatible_cases}

\* the RAM fix-up made before the CPU-Motherboard fix-up instead of after it
repair_compatibility_ram_first(computer, lists) ==
    LET repaired == DeepCopy(computer)
        after_ram == repair_ram(repaired, lists)
        after_cpu == UNION {repair_cpu_motherboard(r, lists) : r \in after_ram}
        after_psu == UNION {repair_psu(r, lists) : r \in after_cpu}
    IN  UNION {repair_case(r, lists) : r \in after_psu}

\* CompatibilityRepairer.repair_compatibility: the Computers it can return,
\* over the outcomes of its random choices.  The four fix-ups run in order on
\* a deep copy; each assigns the slot only.
repair_compatibility(computer, lists) ==
    LET repaired == DeepCopy(computer)
        after_cpu == repair_cpu_motherboard(repaired, lists)
        after_ram == UNION {repair_ram(r, lists) : r \in after_cpu}
        after_psu == UNION {repair_psu(r, lists) : r \in after_ram}
    IN  UNION {repair_case(r, lists) : r \in after_psu}

----------------------------------------------------------------------------
(* algorithm.population.initializer.PopulationInitializer *)

\* create_random_individual: the Computers it can return
create_random_individual(lists) ==
    {NewComputer(cpu, gpu, ram, storage, motherboard, psu, cooling, case) :
        cpu \in lists.cpus, gpu \in lists.gpus, ram \in lists.rams,
        storage \in lists.storages, motherboard \in lists.motherboards,
        psu \in lists.psus, cooling \in lists.coolings, case \in lists.cases}

DemandingUsages == {"juegos", "diseño gráfico", "edición de video", "arquitectura"}

\* create_heuristic_individual: the GPUs it can choose for the CPU chosen.
\* The empty set stands for random.choice([]) raising IndexError.
heuristic_gpus(cpu, lists, prefs) ==
    LET dedicated == lists.gpus \ {NoGPU}
        powerful_gpus == {g \in dedicated : GPU[g].power >= 40}
        basic_gpus == {g \in dedicated : GPU[g].power < 40}
    IN  IF prefs.usage \in DemandingUsages
        THEN IF powerful_gpus # {} THEN powerful_gpus ELSE dedicated
        ELSE (IF CPU[cpu].has_integrated_graphics THEN {NoGPU} ELSE {})
             \cup (IF basic_gpus # {} THEN basic_gpus ELSE lists.gpus)

\* create_heuristic_individual: the PSUs it can choose
heuristic_psus(cpu, gpu, lists) ==
    LET total == CPU[cpu].power_consumption
                 + (IF gpu # NoGPU THEN GPU[gpu].power_consumption ELSE 0) + 150
        suitable_psus == {p \in lists.psus :
                             PSU[p].capacity >= total /\ 2 * PSU[p].capacity <= 3 * total}
    IN  IF suitable_psus # {} THEN suitable_psus ELSE lists.psus

\* create_heuristic_individual: the Computers it can return
create_heuristic_individual(lists, prefs) ==
    UNION {
        LET compatible_cpus == {c \in lists.cpus : is_cpu_compatible(motherboard, c)}
            cpus == IF compatible_cpus = {} THEN lists.cpus ELSE compatible_cpus
            compatible_rams == {m \in lists.rams : is_ram_compatible(motherboard, m)}
            rams == IF compatible_rams = {} THEN lists.rams ELSE compatible_rams
            large_storages == {t \in lists.storages :
                                  Storage[t].capacity >= 1000 /\ Storage[t].type = "SSD"}
            storages == IF prefs.usage \in {"edición de video", "arquitectura"}
                           /\ large_storages # {}
                        THEN large_storages ELSE lists.storages
            compatible_cases == {k \in lists.cases :
                                    is_compatible_with_motherboard(k, motherboard)}
            cases == IF compatible_cases = {} THEN lists.cases ELSE compatible_cases
        IN  UNION {
                {NewComputer(cpu, gpu, ram, storage, motherboard, psu, cooling, case) :
                    ram \in rams, storage \in storages,
                    psu \in heuristic_psus(cpu, gpu, lists),
                    cooling \in lists.coolings, case \in cases} :
                <<cpu, gpu>> \in {cg \in cpus \X lists.gpus :
                                    cg[2] \in heuristic_gpus(cg[1], lists, prefs)}}
        : motherboard \in lists.motherboards}

\* create_heuristic_individual raises (IndexError) on some draw
heuristic_raises(lists, prefs) ==
    \E motherboard \in lists.motherboards :
        LET compatible_cpus == {c \in lists.cpus : is_cpu_compatible(motherboard, c)}
            cpus == IF compatible_cpus = {} THEN lists.cpus ELSE compatible_cpus
        IN  \E cpu \in cpus : heuristic_gpus(cpu, lists, prefs) = {}

\* the sequences of n elements of S
SeqsOf(S, n) == [1..n -> S]

\* a population of random individuals only, none built by the heuristic
initialize_all_random(population_size, lists, prefs) ==
    SeqsOf({Scored(c, prefs) : c \in create_random_individual(lists)}, population_size)

\* PopulationInitializer.initialize: the populations it can return, every
\* individual scored right after it is created
initialize(population_size, lists, prefs) ==
    LET heuristic_count == population_size \div 3
        heuristic == {Scored(c, prefs) : c \in create_heuristic_individual(lists, prefs)}
        random_ == {Scored(c, prefs) : c \in create_random_individual(lists)}
    IN  {h \o r : h \in SeqsOf(heuristic, heuristic_count),
                  r \in SeqsOf(random_, population_size - heuristic_count)}

----------------------------------------------------------------------------
(* algorithm.population.diversity.DiversityCalculator *)

\* the storage key f"{maker}_{type}"
storage_key(t) == <<Storage[t].maker, Storage[t].type>>

\* the weighted count of the makers seen, not divided by the makers there are
diversity_term_unnormalised(w, unique, total) == w * Cardinality(unique)

\* a ratio unique / total_possible weighted by w (in 1/6000), 0 when total is 0
diversity_term(w, unique, total) ==
    IF Cardinality(total) > 0
    THEN (w * Cardinality(unique)) \div Cardinality(total)
    ELSE 0

\* DiversityCalculator.calculate_diversity, in units of 1/6000
calculate_diversity(pop, lists) ==
    IF Len(pop) = 0 THEN 0
    ELSE LET P == {pop[i] : i \in 1..Len(pop)}
             unique_cpus == {CPU[c.cpu].maker : c \in P}
             unique_gpus == {GPU[c.gpu].maker : c \in {x \in P : x.gpu # NoGPU}}
             unique_rams == {RAM[c.ram].maker : c \in P}
             unique_storages == {storage_key(c.storage) : c \in P}
             unique_motherboards == {Motherboard[c.motherboard].maker : c \in P}
             unique_psus == {PSU[c.psu].maker : c \in P}
         IN  diversity_term(1200, unique_cpus, {CPU[c].maker : c \in lists.cpus})
           + diversity_term(1200, unique_gpus,
                            {GPU[g].maker : g \in lists.gpus \ {NoGPU}})
           + diversity_term(900, unique_rams, {RAM[m].maker : m \in lists.rams})
           + diversity_term(900, unique_storages,
                            {storage_key(t) : t \in lists.storages})
           + diversity_term(900, unique_motherboards,
                            {Motherboard[m].maker : m \in lists.motherboards})
           + diversity_term(900, unique_psus, {PSU[q].maker : q \in lists.psus})

----------------------------------------------------------------------------
(* algorithm.computer_generator.ComputerGenerator: pure parts *)

\* __init__: self.population_size
effective_population_size(population_size) == Max(4, population_size)

\* __init__: self.tournament_size, from the population_size argument
effective_tournament_size(tournament_size, population_size) ==
    Min(tournament_size, population_size \div 2)

\* run: elite_count = max(1, int(population_size * elitism_percentage)),
\* elitism_percentage in hundredths
compute_elite_count(population_size, elitism_percentage) ==
    Max(1, TruncDiv(population_size * elitism_percentage, 100))

\* an update that doubles or halves the current rate instead of the base rate
update_mutation_rate_compounding(adaptive_mutation, base_mutation_rate, current, diversity) ==
    IF ~adaptive_mutation THEN current
    ELSE IF diversity < 1800 THEN Min(5000, current * 2)
    ELSE IF diversity > 4200 THEN Max(10, current \div 2)
    ELSE base_mutation_rate

\* update_mutation_rate: the new mutation_rate (rates in 1/10000,
\* diversity in 1/6000)
update_mutation_rate(adaptive_mutation, base_mutation_rate, current, diversity) ==
    IF ~adaptive_mutation THEN current
    ELSE IF diversity < 1800 THEN Min(5000, base_mutation_rate * 2)
    ELSE IF diversity > 4200 THEN Max(10, base_mutation_rate \div 2)
    ELSE base_mutation_rate

\* sorted(population, key=fitness, reverse=True): a stable sort, so Builds of
\* equal fitness keep their order.  Insert x after every element >= x.
RECURSIVE InsertByFitness(_, _)
InsertByFitness(x, s) ==
    IF s = <<>> THEN <<x>>
    ELSE IF s[1].fitness >= x.fitness THEN <<s[1]>> \o InsertByFitness(x, Tail(s))
    ELSE <<x>> \o s

\* no sort at all: the population in the order it is held
Unsorted(s) == s

RECURSIVE SortedByFitness(_)
SortedByFitness(s) ==
    IF s = <<>> THEN <<>>
    ELSE InsertByFitness(s[Len(s)], SortedByFitness(SubSeq(s, 1, Len(s) - 1)))

\* the count least fit instead of the count fittest
select_least_fit(pop, count) ==
    LET n == Min(Max(count, 0), Len(pop))
    IN  SubSeq(SortedByFitness(pop), Len(pop) - n + 1, Len(pop))

\* select_elite: sorted_population[:count]
select_elite(pop, count) ==
    SubSeq(SortedByFitness(pop), 1, Min(Max(count, 0), Len(pop)))

----------------------------------------------------------------------------
(* algorithm.utils.statistics.StatisticsTracker *)

\* the first position, whatever its fitness
FirstPosition(pop) == 1

\* fitness_values.index(max(fitness_values)): the first position of the maximum
FirstBest(pop) ==
    CHOOSE i \in 1..Len(pop) :
        /\ \A j \in 1..Len(pop) : pop[j].fitness <= pop[i].fitness
        /\ \A j \in 1..(i - 1) : pop[j].fitness < pop[i].fitness

\* fitness_values.index(min(fitness_values))
FirstWorst(pop) ==
    CHOOSE i \in 1..Len(pop) :
        /\ \A j \in 1..Len(pop) : pop[j].fitness >= pop[i].fitness
        /\ \A j \in 1..(i - 1) : pop[j].fitness > pop[i].fitness

\* sum(fitness_values) / len(fitness_values), in thousandths
AverageFitness(pop) ==
    SumSeq([i \in 1..Len(pop) |-> pop[i].fitness]) \div Len(pop)

\* get_final_stats
get_final_stats(best, worst, avg, diversity) ==
    [best_fitness_history |-> [i \in 1..Len(best) |-> best[i].fitness],
     worst_fitness_history |-> [i \in 1..Len(worst) |-> worst[i].fitness],
     avg_fitness_history |-> avg,
     diversity_history |-> diversity,
     final_diversity |-> IF Len(diversity) > 0 THEN diversity[Len(diversity)] ELSE 0]

----------------------------------------------------------------------------
(* The inputs of a run: the component lists and the constructor arguments  *)

\* a catalog with a single entry per list: every Computer is the same
SingleCatalog ==
    [cpus |-> {1}, gpus |-> {NoGPU}, rams |-> {1}, storages |-> {1},
     motherboards |-> {1}, psus |-> {1}, coolings |-> {1}, cases |-> {1}]

\* a catalog with two CPUs: the first fits the motherboard, the second does not
TwoCpuCatalog == [SingleCatalog EXCEPT !.cpus = {1, 2}]

Preferences == [min_price |-> 420, max_price |-> 620, usage |-> "ofimática"]

\* ComputerGenerator.__init__: the fields of the generator for the arguments
ComputerGenerator(population_size, crossover_rate, mutation_rate_, generations, user_preferences, elitism_percentage, tournament_size, adaptive_mutation) ==
    [population_size |-> effective_population_size(population_size),
     crossover_rate |-> crossover_rate,
     base_mutation_rate |-> mutation_rate_,
     generations |-> generations,
     elitism_percentage |-> elitism_percentage,
     tournament_size |-> effective_tournament_size(tournament_size, population_size),
     adaptive_mutation |-> adaptive_mutation,
     user_preferences |-> user_preferences,
     requested_population_size |-> population_size,
     requested_tournament_size |-> tournament_size]

ElitismPercentages == {-50, 50, 150}
CrossoverRates == {0, 5000, 10000}
MutationRates == {0, 1000}

\* pair-producing iterations of the while loop over the whole run
Rounds(g) ==
    LET elites == Min(compute_elite_count(g.population_size, g.elitism_percentage),
                      g.population_size)
    IN  g.generations * ((g.population_size - elites + 1) \div 2)

\* Runs over a catalog that offers a choice: the operators at work, for at
\* most MaxRounds pair-producing iterations.
OperatorRuns ==
    {in \in [lists : {TwoCpuCatalog},
             generator :
                {ComputerGenerator(MaxPopulationSize, 5000, mr, gens, Preferences,
                                   ep, MaxTournamentSize, am) :
                    mr \in MutationRates, gens \in 0..MaxGenerations,
                    ep \in ElitismPercentages, am \in BOOLEAN}] :
        Rounds(in.generator) <= MaxRounds}

\* Runs over every requested population and tournament size and every
\* crossover rate.
ParameterRuns ==
    [lists : {SingleCatalog},
     generator :
        {ComputerGenerator(n, xr, 1000, gens, Preferences, ep, ts, TRUE) :
            n \in 0..MaxPopulationSize, xr \in CrossoverRates, gens \in 0..1,
            ep \in ElitismPercentages, ts \in 1..MaxTournamentSize}]

\* Runs of every length up to MaxGenerations.
LongRuns ==
    [lists : {SingleCatalog},
     generator :
        {ComputerGenerator(MaxPopulationSize, 5000, 1000, gens, Preferences, ep,
                           MaxTournamentSize, TRUE) :
            gens \in 0..MaxGenerations, ep \in ElitismPercentages}]

Inputs == OperatorRuns \cup ParameterRuns \cup LongRuns

----------------------------------------------------------------------------
(* ComputerGenerator.run, step by step *)

Idle == [name |-> "none"]

Init ==
    /\ \E in \in Inputs : cat = in.lists /\ cfg = in.generator
    /\ pc = "constructed"
    /\ population = <<>>
    /\ next_generation = <<>>
    /\ generation = NoGeneration
    /\ elite_count = 0
    /\ child1 = None
    /\ child2 = None
    /\ mutation_rate = cfg.base_mutation_rate
    /\ best_cases = <<>>
    /\ worst_cases = <<>>
    /\ avg_cases = <<>>
    /\ diversity_history = <<>>
    /\ generation0 = <<>>
    /\ best_computer = None
    /\ stats = None
    /\ op = Idle

\* run, up to the loop: generate_initial_population, then elite_count
RunStart ==
    /\ pc = "constructed"
    /\ \/ /\ cfg.population_size \div 3 > 0
          /\ heuristic_raises(cat, cfg.user_preferences)
          /\ pc' = "IndexError"
          /\ UNCHANGED <<population, generation0, elite_count>>
       \/ /\ population' \in initialize(cfg.population_size, cat, cfg.user_preferences)
          /\ generation0' = population'
          /\ elite_count' = compute_elite_count(cfg.population_size,
                                                cfg.elitism_percentage)
          /\ pc' = "for"
    /\ UNCHANGED <<cat, cfg, next_generation, generation, child1, child2,
                   mutation_rate, best_cases, worst_cases, avg_cases,
                   diversity_history, best_computer, stats, op>>

\* the loop takes its next iteration: diversity, mutation rate, elites
BeginGeneration ==
    /\ pc = "for"
    /\ generation + 1 < cfg.generations
    /\ generation' = generation + 1
    /\ LET diversity == calculate_diversity(population, cat)
       IN  /\ diversity_history' = Append(diversity_history, diversity)
           /\ mutation_rate' = update_mutation_rate(cfg.adaptive_mutation,
                                   cfg.base_mutation_rate, mutation_rate, diversity)
    /\ next_generation' = select_elite(population, elite_count)
    /\ pc' = "while"
    /\ UNCHANGED <<cat, cfg, population, elite_count, child1, child2, best_cases,
                   worst_cases, avg_cases, generation0, best_computer, stats, op>>

\* the computers a selection can return, over every sample it can draw
Selectable(pop, tournament_size) ==
    {select(pop, t) : t \in Samples(Len(pop), tournament_k(pop, tournament_size))}

\* while len(next_generation) < population_size: the two selections, then
\* crossover or the two deep copies
SelectAndCrossover ==
    /\ pc = "while"
    /\ Len(next_generation) < cfg.population_size
    /\ IF select_raises(population, cfg.tournament_size)
       THEN /\ pc' = "ValueError"
            /\ UNCHANGED <<child1, child2>>
       ELSE \E parent1, parent2 \in Selectable(population, cfg.tournament_size) :
              /\ \/ /\ cfg.crossover_rate > 0
                    /\ \E mask \in DistinctMasks(parent1, parent2) :
                         /\ child1' = crossover(parent1, parent2, mask)[1]
                         /\ child2' = crossover(parent1, parent2, mask)[2]
                 \/ /\ cfg.crossover_rate < 10000
                    /\ child1' = DeepCopy(parent1)
                    /\ child2' = DeepCopy(parent2)
              /\ pc' = "mutate"
    /\ UNCHANGED <<cat, cfg, population, next_generation, generation, elite_count,
                   mutation_rate, best_cases, worst_cases, avg_cases,
                   diversity_history, generation0, best_computer, stats, op>>

\* child1 = mutate(child1); child2 = mutate(child2)
Mutate ==
    /\ pc = "mutate"
    /\ \E d1 \in DistinctDraws(child1, mutation_rate, cat) :
           child1' = mutate(child1, d1)
    /\ \E d2 \in DistinctDraws(child2, mutation_rate, cat) :
           child2' = mutate(child2, d2)
    /\ pc' = "repair"
    /\ UNCHANGED <<cat, cfg, population, next_generation, generation, elite_count,
                   mutation_rate, best_cases, worst_cases, avg_cases,
                   diversity_history, generation0, best_computer, stats, op>>

\* both children appended, room or not
append_both(next, c1, c2, population_size) == Append(Append(next, c1), c2)

\* next_generation.append(child1), and child2 if there is room left
append_children(next, c1, c2, population_size) ==
    LET with1 == Append(next, c1)
    IN  IF Len(with1) < population_size THEN Append(with1, c2) ELSE with1

\* the two optional repairs, the two fitness assignments, the appends
RepairScoreAppend ==
    /\ pc = "repair"
    /\ \E r1 \in {child1} \cup repair_compatibility(child1, cat),
          r2 \in {child2} \cup repair_compatibility(child2, cat) :
          next_generation' = append_children(next_generation,
                                 Scored(r1, cfg.user_preferences),
                                 Scored(r2, cfg.user_preferences),
                                 cfg.population_size)
    /\ child1' = None
    /\ child2' = None
    /\ pc' = "while"
    /\ UNCHANGED <<cat, cfg, population, generation, elite_count, mutation_rate,
                   best_cases, worst_cases, avg_cases, diversity_history,
                   generation0, best_computer, stats, op>>

\* the early-stop test, first made one generation later
converged_later(g, best) ==
    /\ g > 21
    /\ Len(best) >= 20
    /\ Abs(best[Len(best)].fitness - best[Len(best) - 19].fitness) < 1

\* the early-stop test at the end of an iteration of the loop
converged(g, best) ==
    /\ g > 20
    /\ Len(best) >= 20
    /\ Abs(best[Len(best)].fitness - best[Len(best) - 19].fitness) < 1

\* the while loop is over: the population is replaced, the statistics are
\* updated, the loop breaks or goes on
EndGeneration ==
    /\ pc = "while"
    /\ ~(Len(next_generation) < cfg.population_size)
    /\ population' = next_generation
    /\ best_cases' = Append(best_cases, next_generation[FirstBest(next_generation)])
    /\ worst_cases' = Append(worst_cases, next_generation[FirstWorst(next_generation)])
    /\ avg_cases' = Append(avg_cases, AverageFitness(next_generation))
    /\ pc' = IF converged(generation, best_cases') THEN "break" ELSE "for"
    /\ UNCHANGED <<cat, cfg, next_generation, generation, elite_count, child1,
                   child2, mutation_rate, diversity_history, generation0,
                   best_computer, stats, op>>

\* after the loop: the best computer and the statistics.  generation + 1
\* reads the loop variable, which is unbound when the loop body never ran.
Finish ==
    /\ \/ pc = "break"
       \/ pc = "for" /\ ~(generation + 1 < cfg.generations)
    /\ best_computer' = population[FirstBest(population)]
    /\ IF generation = NoGeneration
       THEN /\ pc' = "UnboundLocalError"
            /\ UNCHANGED stats
       ELSE /\ pc' = "done"
            /\ stats' = [history |-> get_final_stats(best_cases, worst_cases,
                                                    avg_cases, diversity_history),
                         generations_completed |-> generation + 1,
                         final_population_size |-> Len(population)]
    /\ UNCHANGED <<cat, cfg, population, next_generation, generation, elite_count,
                   child1, child2, mutation_rate, best_cases, worst_cases,
                   avg_cases, diversity_history, generation0, op>>

Next ==
    \/ RunStart
    \/ BeginGeneration
    \/ SelectAndCrossover
    \/ Mutate
    \/ RepairScoreAppend
    \/ EndGeneration
    \/ Finish

Spec == Init /\ [][Next]_vars

----------------------------------------------------------------------------
(* Single calls of the operators, on operands drawn from small sets *)

MaxSelectPopulation == 4

\* a catalog with a choice in every list
NoRunCatalog ==
    [cpus |-> {1, 2, 3}, gpus |-> {NoGPU, 1, 2}, rams |-> {1, 2},
     storages |-> {1, 2}, motherboards |-> {1, 2}, psus |-> {1, 2},
     coolings |-> {1, 2}, cases |-> {1, 2}]

\* the variables of a run, at rest
NoRun ==
    /\ cat = NoRunCatalog
    /\ cfg = ComputerGenerator(4, 5000, 1000, 1, Preferences, 10, 3, TRUE)
    /\ pc = "call"
    /\ population = <<>>
    /\ next_generation = <<>>
    /\ generation = NoGeneration
    /\ elite_count = 0
    /\ child1 = None
    /\ child2 = None
    /\ mutation_rate = cfg.base_mutation_rate
    /\ best_cases = <<>>
    /\ worst_cases = <<>>
    /\ avg_cases = <<>>
    /\ diversity_history = <<>>
    /\ generation0 = <<>>
    /\ best_computer = None
    /\ stats = None

run_vars == <<cat, cfg, population, next_generation, generation, elite_count,
              child1, child2, mutation_rate, best_cases, worst_cases, avg_cases,
              diversity_history, generation0, best_computer, stats>>

\* Computers to operate on, each scored: the first two differ in every slot,
\* the third shares some slots with each of them
OperandPool ==
    {Scored(c, Preferences) :
        c \in {NewComputer(1, NoGPU, 1, 1, 1, 1, 1, 1),
               NewComputer(2, 1, 2, 2, 2, 2, 2, 2),
               NewComputer(3, 2, 1, 2, 1, 2, 1, 2)}}

\* one call of UniformCrossover.crossover
InitCrossover ==
    /\ NoRun
    /\ \E parent1, parent2 \in OperandPool, mask \in Masks :
          op = [name |-> "crossover", parent1 |-> parent1, parent2 |-> parent2,
                mask |-> mask, result |-> None]

CallCrossover ==
    /\ pc = "call"
    /\ op.name = "crossover"
    /\ op' = [op EXCEPT !.result = crossover(op.parent1, op.parent2, op.mask)]
    /\ pc' = "returned"
    /\ UNCHANGED run_vars

SpecCrossover == InitCrossover /\ [][CallCrossover]_vars

\* one call of TournamentSelection.select on a non-empty population
InitSelect ==
    /\ NoRun
    /\ \E n \in 1..MaxSelectPopulation, tournament_size \in 1..(MaxSelectPopulation + 1) :
          \E pop \in SeqsOf(OperandPool, n) :
              op = [name |-> "select", population |-> pop,
                    tournament_size |-> tournament_size,
                    tournament |-> <<>>, result |-> None]

CallSelect ==
    /\ pc = "call"
    /\ op.name = "select"
    /\ ~select_raises(op.population, op.tournament_size)
    /\ \E t \in Samples(Len(op.population),
                        tournament_k(op.population, op.tournament_size)) :
          op' = [op EXCEPT !.tournament = t, !.result = select(op.population, t)]
    /\ pc' = "returned"
    /\ UNCHANGED run_vars

SpecSelect == InitSelect /\ [][CallSelect]_vars

MaxDiversityPopulation == 2

\* Catalogs for the diversity: one, two or three CPUs (two of a same maker),
\* only the null GPU or the null GPU and two GPUs, one or two of the rest
DiversityCatalogs ==
    {[cpus |-> cpus, gpus |-> gpus, rams |-> rest, storages |-> rest,
      motherboards |-> rest, psus |-> rest, coolings |-> {1}, cases |-> {1}] :
        cpus \in {{1}, {1, 2}, {1, 2, 3}}, gpus \in {{NoGPU}, {NoGPU, 1, 2}},
        rest \in {{1}, {1, 2}}}

\* one call of DiversityCalculator.calculate_diversity, on a population of
\* Computers made of entries of the catalog
InitDiversity ==
    /\ NoRun
    /\ \E lists \in DiversityCatalogs, n \in 0..MaxDiversityPopulation :
          \E pop \in SeqsOf(create_random_individual(lists), n) :
              op = [name |-> "diversity", lists |-> lists, population |-> pop,
                    result |-> None]

CallDiversity ==
    /\ pc = "call"
    /\ op.name = "diversity"
    /\ op' = [op EXCEPT !.result = calculate_diversity(op.population, op.lists)]
    /\ pc' = "returned"
    /\ UNCHANGED run_vars

SpecDiversity == InitDiversity /\ [][CallDiversity]_vars

MaxUpdates == 2

\* base rates, in 1/10000: 0, 0.001, 0.0015, 0.1, 0.25, 0.3 and 1
BaseRates == {0, 10, 15, 1000, 2500, 3000, 10000}

\* diversities, in 1/6000: 0, 0.2, the two thresholds 0.3 and 0.7 and their
\* neighbours, 0.5, 0.9 and 1
Diversities == {0, 1200, 1799, 1800, 1801, 3000, 4199, 4200, 4201, 5400, 6000}

\* a generator as constructed (mutation_rate = base_mutation_rate), then
\* successive calls of update_mutation_rate
InitMutationRate ==
    /\ NoRun
    /\ \E adaptive_mutation \in BOOLEAN, base \in BaseRates :
          op = [name |-> "update_mutation_rate",
                adaptive_mutation |-> adaptive_mutation,
                base_mutation_rate |-> base, mutation_rate |-> base,
                diversities |-> <<>>]

CallUpdateMutationRate ==
    /\ op.name = "update_mutation_rate"
    /\ Len(op.diversities) < MaxUpdates
    /\ \E diversity \in Diversities :
          op' = [op EXCEPT
                   !.mutation_rate = update_mutation_rate(op.adaptive_mutation,
                                         op.base_mutation_rate, op.mutation_rate,
                                         diversity),
                   !.diversities = Append(op.diversities, diversity)]
    /\ pc' = "returned"
    /\ UNCHANGED run_vars

SpecMutationRate == InitMutationRate /\ [][CallUpdateMutationRate]_vars

MaxElitePopulation == 6

\* elitism_percentage values of [0, 1], in hundredths
UnitPercentages == 0..100

\* a generator as constructed for a requested population size and an
\* elitism_percentage, and its initial population
InitSelectElite ==
    /\ NoRun
    /\ \E n \in 0..MaxElitePopulation, ep \in UnitPercentages :
          LET g == ComputerGenerator(n, 5000, 1000, 1, Preferences, ep,
                                     MaxTournamentSize, TRUE)
          IN  \E pop \in initialize(g.population_size, SingleCatalog, Preferences) :
                  op = [name |-> "select_elite", generator |-> g,
                        population |-> pop, elite_count |-> 0, elites |-> <<>>]

\* run: elite_count is computed, then the elites of a generation are selected
CallSelectElite ==
    /\ op.name = "select_elite"
    /\ pc = "call"
    /\ LET count == compute_elite_count(op.generator.population_size,
                                        op.generator.elitism_percentage)
       IN  op' = [op EXCEPT !.elite_count = count,
                            !.elites = select_elite(op.population, count)]
    /\ pc' = "returned"
    /\ UNCHANGED run_vars

SpecSelectElite == InitSelectElite /\ [][CallSelectElite]_vars

\* Catalogs for the repair: every component of the tables, or two CPUs with
\* the one motherboard that accepts only the first
RepairCatalogs == {NoRunCatalog, TwoCpuCatalog}

\* Computers handed to the repair, as run hands them: a scored Computer of the
\* catalog, or the result of a mutation of its CPU slot
RepairOperands(lists) ==
    LET scored == {Scored(c, Preferences) : c \in create_random_individual(lists)}
    IN  scored \cup {mutate(c, [cpu |-> x, gpu |-> Keep, ram |-> Keep,
                                storage |-> Keep, motherboard |-> Keep,
                                psu |-> Keep, cooling |-> Keep, case |-> Keep]) :
                        c \in scored, x \in lists.cpus}

\* repair_compatibility, then repair_compatibility of its result
InitRepair ==
    /\ NoRun
    /\ \E lists \in RepairCatalogs :
          \E computer \in RepairOperands(lists) :
              op = [name |-> "repair", lists |-> lists, computer |-> computer,
                    repaired |-> None, repaired_again |-> None]

CallRepair ==
    /\ pc = "call"
    /\ op.name = "repair"
    /\ \E r \in repair_compatibility(op.computer, op.lists) :
          op' = [op EXCEPT !.repaired = r]
    /\ pc' = "returned"
    /\ UNCHANGED run_vars

CallRepairAgain ==
    /\ pc = "returned"
    /\ op.name = "repair"
    /\ \E r \in repair_compatibility(op.repaired, op.lists) :
          op' = [op EXCEPT !.repaired_again = r]
    /\ pc' = "returned again"
    /\ UNCHANGED run_vars

SpecRepair == InitRepair /\ [][CallRepair \/ CallRepairAgain]_vars

\* Computers to score: CPUs priced 100, 300, 0 (and drawing no power), 11170
\* and 19670, no GPU or a GPU priced 200 or 0, either cooling, one of the rest
FitnessCatalog ==
    [cpus |-> {1, 2, 4, 5, 6}, gpus |-> {NoGPU, 1, 3}, rams |-> {1},
     storages |-> {1}, motherboards |-> {1}, psus |-> {1}, coolings |-> {1, 2},
     cases |-> {1}]

\* budgets <<min_price, max_price>> with min_price <= max_price
PriceRanges == {<<420, 620>>, <<430, 430>>, <<330, 330>>, <<8000, 15000>>,
                <<11500, 20000>>}

Usages == {"ofimática", "juegos"}

\* one call of FitnessCalculator.calculate_fitness
InitFitness ==
    /\ NoRun
    /\ \E computer \in create_random_individual(FitnessCatalog),
          range \in PriceRanges, usage \in Usages :
          op = [name |-> "fitness", computer |-> computer,
                user_preferences |-> [min_price |-> range[1],
                                      max_price |-> range[2], usage |-> usage],
                result |-> None]

CallFitness ==
    /\ pc = "call"
    /\ op.name = "fitness"
    /\ IF calculate_fitness_raises(op.computer, op.user_preferences)
       THEN pc' = "ZeroDivisionError" /\ UNCHANGED op
       ELSE /\ pc' = "returned"
            /\ op' = [op EXCEPT !.result =
                        [fitness |-> calculate_fitness(op.computer, op.user_preferences),
                         price_range |-> calculate_price_range_score(op.computer,
                                                         op.user_preferences),
                         cpu_value |-> cpu_value_score(op.computer),
                         gpu_value |-> gpu_value_score(op.computer),
                         compatibility |-> calculate_compatibility_score(op.computer),
                         usage_match |-> get_usage_score(op.computer,
                                                         op.user_preferences),
                         power_balance |-> calculate_power_balance(op.computer),
                         bottleneck |-> IF is_bottleneck(op.computer) THEN 1000 ELSE 0,
                         cooling |-> calculate_cooling_score(op.computer),
                         case |-> calculate_case_compatibility(op.computer)]]
    /\ UNCHANGED run_vars

SpecFitness == InitFitness /\ [][CallFitness]_vars

\* the usage categories UsageScorer knows
UsageCategories ==
    {"ofimática", "juegos", "diseño gráfico", "edición de video",
     "navegación web", "educación", "arquitectura"}

\* GPU lists: only the None entry, None with a GPU of power below 40 or of
\* power 40 and more, a single weak GPU, every entry
GpuLists == {{NoGPU}, {NoGPU, 3}, {NoGPU, 1}, {3}, {NoGPU, 1, 2, 3}}

\* catalogs whose lists are all non-empty: the lists of NoRunCatalog, with
\* each of the GPU lists
HeuristicCatalogs == {[NoRunCatalog EXCEPT !.gpus = gpus] : gpus \in GpuLists}

\* one call of PopulationInitializer.create_heuristic_individual
InitHeuristic ==
    /\ NoRun
    /\ \E lists \in HeuristicCatalogs, usage \in UsageCategories :
          op = [name |-> "create_heuristic_individual", lists |-> lists,
                user_preferences |-> [Preferences EXCEPT !.usage = usage],
                result |-> None]

CallHeuristic ==
    /\ pc = "call"
    /\ op.name = "create_heuristic_individual"
    /\ \/ /\ heuristic_raises(op.lists, op.user_preferences)
          /\ pc' = "IndexError"
          /\ UNCHANGED op
       \/ /\ \E computer \in create_heuristic_individual(op.lists, op.user_preferences) :
                op' = [op EXCEPT !.result = computer]
          /\ pc' = "returned"
    /\ UNCHANGED run_vars

SpecHeuristic == InitHeuristic /\ [][CallHeuristic]_vars

MaxInitializeSize == 5

\* catalogs to initialize from: two CPUs, of which the motherboard accepts the
\* first, with no GPU or one GPU; or a single entry per list
InitializeCatalogs == {[TwoCpuCatalog EXCEPT !.gpus = {NoGPU, 1}], SingleCatalog}

\* one call of PopulationInitializer.initialize(population_size, calculator)
InitInitialize ==
    /\ NoRun
    /\ \E size \in 0..MaxInitializeSize, lists \in InitializeCatalogs, usage \in Usages :
          op = [name |-> "initialize", population_size |-> size, lists |-> lists,
                user_preferences |-> [Preferences EXCEPT !.usage = usage],
                population |-> <<>>]

CallInitialize ==
    /\ pc = "call"
    /\ op.name = "initialize"
    /\ \/ /\ op.population_size \div 3 > 0
          /\ heuristic_raises(op.lists, op.user_preferences)
          /\ pc' = "IndexError"
          /\ UNCHANGED op
       \/ /\ \E pop \in initialize(op.population_size, op.lists, op.user_preferences) :
                op' = [op EXCEPT !.population = pop]
          /\ pc' = "returned"
    /\ UNCHANGED run_vars

SpecInitialize == InitInitialize /\ [][CallInitialize]_vars

\* Computers to score for a usage: every CPU, GPU, RAM and storage of the
\* tables, one of the rest
UsageCatalog ==
    [SingleCatalog EXCEPT !.cpus = {1, 2, 3, 4, 5, 6}, !.gpus = {NoGPU, 1, 2, 3},
                          !.rams = {1, 2, 3, 4}, !.storages = {1, 2, 3, 4}]

\* one call of FitnessCalculator.get_usage_score, for a usage UsageScorer
\* knows or one it does not
InitUsageScore ==
    /\ NoRun
    /\ \E computer \in create_random_individual(UsageCatalog),
          usage \in UsageCategories \cup {"servidor"} :
          op = [name |-> "get_usage_score", computer |-> computer,
                user_preferences |-> [Preferences EXCEPT !.usage = usage],
                result |-> None]

CallUsageScore ==
    /\ pc = "call"
    /\ op.name = "get_usage_score"
    /\ op' = [op EXCEPT !.result =
                [raw_score |-> score_for_usage(op.computer, op.user_preferences.usage),
                 usage_score |-> get_usage_score(op.computer, op.user_preferences)]]
    /\ pc' = "returned"
    /\ UNCHANGED run_vars

SpecUsageScore == InitUsageScore /\ [][CallUsageScore]_vars

----------------------------------------------------------------------------
(* Objects and references: one iteration of the while loop of run, the      *)
(* Computers being objects of a heap and the lists holding references       *)

MaxHeapPopulation == 3

\* deepcopy(computer): a new object, the reference to it
heap_deepcopy(heap, ref) ==
    [heap |-> Append(heap, DeepCopy(heap[ref])), ref |-> Len(heap) + 1]

\* UniformCrossover.crossover: two new objects built from the slots read
heap_crossover(heap, parent1, parent2, mask) ==
    LET children == crossover(heap[parent1], heap[parent2], mask)
    IN  [heap |-> heap \o children,
         ref1 |-> Len(heap) + 1, ref2 |-> Len(heap) + 2]

\* a mutation that assigns the slots of the object it was passed
heap_mutate_in_place(heap, ref, draw) ==
    [heap |-> [heap EXCEPT ![ref] = mutate(heap[ref], draw)], ref |-> ref]

\* Mutator.mutate: the slots are assigned on mutated_computer, a deep copy
heap_mutate(heap, ref, draw) ==
    [heap |-> Append(heap, mutate(heap[ref], draw)), ref |-> Len(heap) + 1]

\* CompatibilityRepairer.repair_compatibility: the slots are assigned on
\* repaired, a deep copy; r is the Computer the random choices lead to
heap_repair(heap, ref, r) ==
    [heap |-> Append(heap, r), ref |-> Len(heap) + 1]

\* child.fitness = calculate_fitness(child): an assignment on the object
heap_score(heap, ref, prefs) ==
    [heap EXCEPT ![ref] = Scored(heap[ref], prefs)]

\* the references select can return
heap_selectable(heap, refs, tournament_size) ==
    {refs[t[FirstBest([i \in 1..Len(t) |-> heap[refs[t[i]]]])]] :
        t \in Samples(Len(refs), tournament_k(refs, tournament_size))}

\* a population of objects, the first of them kept as elite and recorded as
\* best case, before the while loop
InitHeap ==
    /\ NoRun
    /\ \E n \in 2..MaxHeapPopulation :
          \E objects \in SeqsOf(RepairOperands(TwoCpuCatalog), n) :
              op = [name |-> "heap", lists |-> TwoCpuCatalog, heap |-> objects,
                    population |-> [i \in 1..n |-> i],
                    next_generation |-> <<1>>, best_cases |-> <<1>>,
                    passed |-> <<>>, child1 |-> 0, child2 |-> 0]

\* the two selections, then crossover or the two deep copies
HeapSelectAndCrossover ==
    /\ pc = "call"
    /\ op.name = "heap"
    /\ \E parent1, parent2 \in heap_selectable(op.heap, op.population, 2) :
          \/ \E mask \in DistinctMasks(op.heap[parent1], op.heap[parent2]) :
                LET made == heap_crossover(op.heap, parent1, parent2, mask)
                IN  op' = [op EXCEPT !.heap = made.heap, !.child1 = made.ref1,
                                     !.child2 = made.ref2,
                                     !.passed = <<parent1, parent2>>]
          \/ LET copy1 == heap_deepcopy(op.heap, parent1)
                 copy2 == heap_deepcopy(copy1.heap, parent2)
             IN  op' = [op EXCEPT !.heap = copy2.heap, !.child1 = copy1.ref,
                                  !.child2 = copy2.ref,
                                  !.passed = <<parent1, parent2>>]
    /\ pc' = "mutate"
    /\ UNCHANGED run_vars

\* child1 = mutate(child1); child2 = mutate(child2), at mutation rate 0.1
HeapMutate ==
    /\ pc = "mutate"
    /\ op.name = "heap"
    /\ \E d1 \in DistinctDraws(op.heap[op.child1], 1000, op.lists),
          d2 \in DistinctDraws(op.heap[op.child2], 1000, op.lists) :
          LET m1 == heap_mutate(op.heap, op.child1, d1)
              m2 == heap_mutate(m1.heap, op.child2, d2)
          IN  op' = [op EXCEPT !.heap = m2.heap, !.child1 = m1.ref,
                               !.child2 = m2.ref,
                               !.passed = <<op.child1, op.child2>>]
    /\ pc' = "repair"
    /\ UNCHANGED run_vars

\* the repair of a child, or none (random.random() < 0.5 was false): the
\* heap after it, the reference to the child and the references passed
heap_maybe_repair(heap, ref, lists) ==
    {[heap |-> heap, ref |-> ref, passed |-> <<>>]}
    \cup {[heap |-> heap_repair(heap, ref, r).heap,
           ref |-> heap_repair(heap, ref, r).ref, passed |-> <<ref>>] :
             r \in repair_compatibility(heap[ref], lists)}

\* the two optional repairs, the two fitness assignments, the appends
HeapRepairScoreAppend ==
    /\ pc = "repair"
    /\ op.name = "heap"
    /\ \E rep1 \in heap_maybe_repair(op.heap, op.child1, op.lists) :
          \E rep2 \in heap_maybe_repair(rep1.heap, op.child2, op.lists) :
              LET scored == heap_score(heap_score(rep2.heap, rep1.ref, Preferences),
                                       rep2.ref, Preferences)
              IN  op' = [op EXCEPT !.heap = scored, !.child1 = rep1.ref,
                                   !.child2 = rep2.ref,
                                   !.passed = rep1.passed \o rep2.passed,
                                   !.next_generation =
                                       append_children(op.next_generation, rep1.ref,
                                                       rep2.ref, Len(op.population))]
    /\ pc' = "appended"
    /\ UNCHANGED run_vars

SpecHeap ==
    InitHeap /\ [][HeapSelectAndCrossover \/ HeapMutate \/ HeapRepairScoreAppend]_vars

----------------------------------------------------------------------------
(* Properties *)

Range(s) == {s[i] : i \in 1..Len(s)}

\* the population is whole: after initialization and after every generation
AtBoundary == pc \in {"for", "break", "done"}

\* the greatest fitness of a non-empty population
MaxFitness(pop) ==
    CHOOSE f \in {c.fitness : c \in Range(pop)} : \A c \in Range(pop) : c.fitness <= f

InBudget(price) ==
    cfg.user_preferences.min_price <= price /\ price <= cfg.user_preferences.max_price

\* the stored price and estimated_performance are those of the components held
Current(c) ==
    /\ c.price = ComponentsPrice(c)
    /\ c.estimated_performance = calculate_estimated_performance(c)

\* C1: every Build of the population at a generation boundary, and the Build
\* returned by run, stores the price and the estimated performance of the
\* components it currently holds.
C1_PriceAndPerformanceCurrent ==
    /\ AtBoundary => \A c \in Range(population) : Current(c)
    /\ pc = "done" => Current(best_computer)

\* C2: after initialization and after every generation the population holds
\* exactly population_size (at least 4) Builds; a pair of children is appended
\* whole when there is room, and without its second child otherwise.
C2_PopulationSizeFixed ==
    /\ [](AtBoundary => /\ Len(population) = cfg.population_size
                        /\ cfg.population_size >= 4)
    /\ [][pc = "repair" =>
            LET n == Len(next_generation)
                first == next_generation'[n + 1]
            IN  /\ Len(next_generation') = Min(n + 2, cfg.population_size)
                /\ SubSeq(next_generation', 1, n) = next_generation
                /\ \E r \in {child1} \cup repair_compatibility(child1, cat) :
                       first = Scored(r, cfg.user_preferences)]_vars

\* C2 witness: a generation completed in which a second child was dropped
C2_Witness ==
    /\ pc = "for"
    /\ generation >= 0
    /\ elite_count < cfg.population_size
    /\ (cfg.population_size - elite_count) % 2 = 1
    /\ Len(population) = cfg.population_size

\* C3: the Build returned by run is at least as fit as every Build of the
\* initial population, and the best fitness of the population never decreases
\* from one generation to the next.
C3_BestNeverDecreases ==
    /\ [](pc = "done" =>
            \A c \in Range(generation0) : c.fitness <= best_computer.fitness)
    /\ [][pc = "while" /\ pc' \in {"for", "break"} =>
            MaxFitness(population') >= MaxFitness(population)]_vars

\* C3 witness: a run returned a Build fitter than every initial Build
C3_Witness ==
    /\ pc = "done"
    /\ cfg.generations >= 1
    /\ \A c \in Range(generation0) : c.fitness < best_computer.fitness

\* C4: a Build that is among the elite_count fittest of the population
\* whatever the order of equally fit Builds is in the next population, the same
\* in every slot, in price and in fitness.
C4_ElitesSurvive ==
    [][pc = "while" /\ pc' \in {"for", "break"} =>
         \A c \in Range(population) :
            Cardinality({i \in 1..Len(population) :
                            population[i].fitness >= c.fitness}) <= elite_count
            => c \in Range(population')]_vars

\* C4 witness: a generation ended with an elite kept beside a fitter child
C4_Witness ==
    /\ pc = "for"
    /\ generation >= 0
    /\ elite_count < Len(population)
    /\ \E i \in (elite_count + 1)..Len(population) :
          population[i].fitness > population[1].fitness

\* some CPU, motherboard, RAM and case of the catalog are compatible and, with
\* the other components, priced within the budget
HasCompatibleInBudget ==
    \E c \in create_random_individual(cat) :
        /\ is_cpu_compatible(c.motherboard, c.cpu)
        /\ is_ram_compatible(c.motherboard, c.ram)
        /\ can_fit_all_components(c.case, c)
        /\ InBudget(CPU[c.cpu].price
                    + (IF c.gpu # NoGPU THEN GPU[c.gpu].price ELSE 0)
                    + RAM[c.ram].price + Storage[c.storage].price
                    + Motherboard[c.motherboard].price + PSU[c.psu].price
                    + Cooling[c.cooling].price + Case[c.case].price)

\* every combination of components of the catalog is priced within the budget
AllInBudget ==
    \A cpu \in cat.cpus, gpu \in cat.gpus, ram \in cat.rams,
       storage \in cat.storages, motherboard \in cat.motherboards,
       psu \in cat.psus, cooling \in cat.coolings, case \in cat.cases :
        InBudget(CPU[cpu].price + (IF gpu # NoGPU THEN GPU[gpu].price ELSE 0)
                 + RAM[ram].price + Storage[storage].price
                 + Motherboard[motherboard].price + PSU[psu].price
                 + Cooling[cooling].price + Case[case].price)

C6_ReturnsFittestOfFinalPopulation ==
    pc = "done" =>
        /\ best_computer \in Range(population)
        /\ \A c \in Range(population) : c.fitness <= best_computer.fitness

\* C6 witness: a run stopped early and returned while Builds of the final
\* population differ in fitness
C6_Witness ==
    /\ pc = "done"
    /\ stats.generations_completed < cfg.generations
    /\ \E c \in Range(population) : c.fitness < best_computer.fitness

\* the best fitness was the same over the last 20 generations recorded
ConstantForLast20(best) ==
    /\ Len(best) >= 20
    /\ \A i \in (Len(best) - 19)..Len(best) : best[i].fitness = best[Len(best)].fitness

C8_ClampingKeepsSelectionSafe ==
    cfg.requested_tournament_size >= 1 =>
        /\ cfg.population_size >= 4
        /\ cfg.tournament_size >= 1
        /\ 2 * cfg.tournament_size <= cfg.population_size
        /\ pc # "ValueError"

\* C9: whatever the 8 flips, in every slot one child holds the value of
\* parent1 and the other child the value of parent2.
C9_ChildrenComplementary ==
    pc = "returned" /\ op.name = "crossover" =>
        \A slot \in Slots :
            \/ /\ op.result[1][slot] = op.parent1[slot]
               /\ op.result[2][slot] = op.parent2[slot]
            \/ /\ op.result[1][slot] = op.parent2[slot]
               /\ op.result[2][slot] = op.parent1[slot]

\* C9 witness: a crossover of parents that differ in every slot mixed them
C9_Witness ==
    /\ pc = "returned"
    /\ op.name = "crossover"
    /\ \A slot \in Slots : op.parent1[slot] # op.parent2[slot]
    /\ \E s1, s2 \in Slots : /\ op.result[1][s1] = op.parent1[s1]
                             /\ op.result[1][s2] = op.parent2[s2]

\* C10: select returns a member of the population that is as fit as every
\* sampled contestant, and as fit as every member when tournament_size is at
\* least the size of the population.
C10_SelectReturnsFittestContestant ==
    pc = "returned" /\ op.name = "select" =>
        /\ op.result \in Range(op.population)
        /\ \E i \in 1..Len(op.tournament) : op.population[op.tournament[i]] = op.result
        /\ \A i \in 1..Len(op.tournament) :
              op.population[op.tournament[i]].fitness <= op.result.fitness
        /\ op.tournament_size >= Len(op.population) =>
              \A c \in Range(op.population) : c.fitness <= op.result.fitness

\* C10 witness: a tournament over the whole population of Builds of different
\* fitness returned
C10_Witness ==
    /\ pc = "returned"
    /\ op.name = "select"
    /\ op.tournament_size >= Len(op.population)
    /\ \E c \in Range(op.population) : c.fitness < op.result.fitness

\* every maker of the catalog, in each of the six dimensions, is the maker of
\* a component of some Build of the population
AllMakersAppear(pop, lists) ==
    /\ \A x \in lists.cpus : \E b \in Range(pop) : CPU[b.cpu].maker = CPU[x].maker
    /\ \A x \in lists.gpus \ {NoGPU} :
          \E b \in Range(pop) : b.gpu # NoGPU /\ GPU[b.gpu].maker = GPU[x].maker
    /\ \A x \in lists.rams : \E b \in Range(pop) : RAM[b.ram].maker = RAM[x].maker
    /\ \A x \in lists.storages :
          \E b \in Range(pop) : /\ Storage[b.storage].maker = Storage[x].maker
                                /\ Storage[b.storage].type = Storage[x].type
    /\ \A x \in lists.motherboards :
          \E b \in Range(pop) : Motherboard[b.motherboard].maker = Motherboard[x].maker
    /\ \A x \in lists.psus : \E b \in Range(pop) : PSU[b.psu].maker = PSU[x].maker

\* C11: calculate_diversity returns 1 (6000 in 1/6000) whenever every maker of
\* the catalog appears in the population, also for a catalog whose GPU list
\* holds only the null entry.
C11_FullCoverageGivesOne ==
    pc = "returned" /\ op.name = "diversity"
    /\ AllMakersAppear(op.population, op.lists)
        => op.result = 6000

\* C12: calculate_diversity returns a value between 0 and 1 (6000 in 1/6000)
\* for every population of catalog entries, and 0 for the empty population.
C12_DiversityInUnitInterval ==
    pc = "returned" /\ op.name = "diversity" =>
        /\ 0 <= op.result /\ op.result <= 6000
        /\ Len(op.population) = 0 => op.result = 0

\* C12 witness: a population that shows some but not all makers got a
\* diversity strictly between 0 and 1
C12_Witness ==
    /\ pc = "returned"
    /\ op.name = "diversity"
    /\ Len(op.population) = MaxDiversityPopulation
    /\ ~AllMakersAppear(op.population, op.lists)
    /\ 0 < op.result /\ op.result < 6000

\* C13: after each update the mutation rate is min(0.5, 2*base) for a
\* diversity below 0.3, max(0.001, base/2) for a diversity above 0.7 and base
\* otherwise, whatever the rate was before; without adaptive mutation it is
\* base throughout.  For base 0.1: 0.2 gives 0.2, 0.5 gives 0.1, 0.9 gives 0.05.
C13_RateDerivedFromBase ==
    op.name = "update_mutation_rate" /\ Len(op.diversities) > 0 =>
        LET d == op.diversities[Len(op.diversities)]
            base == op.base_mutation_rate
            rate == op.mutation_rate
        IN  /\ ~op.adaptive_mutation => rate = base
            /\ op.adaptive_mutation /\ d < 1800 =>
                  (IF 2 * base <= 5000 THEN rate = 2 * base ELSE rate = 5000)
            /\ op.adaptive_mutation /\ d > 4200 =>
                  (IF base >= 20 THEN 2 * rate = base ELSE rate = 10)
            /\ op.adaptive_mutation /\ 1800 <= d /\ d <= 4200 => rate = base
            /\ op.adaptive_mutation /\ base = 1000 =>
                  /\ d = 1200 => rate = 2000
                  /\ d = 3000 => rate = 1000
                  /\ d = 5400 => rate = 500

\* C13 witness: a second update in a row for a low diversity left the rate at
\* twice the base rate
C13_Witness ==
    /\ op.name = "update_mutation_rate"
    /\ op.adaptive_mutation
    /\ op.base_mutation_rate = 1000
    /\ op.diversities = <<1200, 1200>>
    /\ op.mutation_rate = 2000

SameSlots(a, b) == \A slot \in Slots : a[slot] = b[slot]

\* C14: a second application of repair_compatibility, to the result of the
\* first, returns a Build with the same eight slots, whatever the random
\* choices of both.
C14_RepairIdempotent ==
    pc = "returned again" /\ op.name = "repair" =>
        SameSlots(op.repaired_again, op.repaired)

\* the four checks of the repair pass on the Build
ValidBuild(b) ==
    /\ is_cpu_compatible(b.motherboard, b.cpu)
    /\ is_ram_compatible(b.motherboard, b.ram)
    /\ PSU[b.psu].capacity >=
          CPU[b.cpu].power_consumption
          + (IF b.gpu # NoGPU THEN GPU[b.gpu].power_consumption ELSE 0)
          + Motherboard[b.motherboard].power_consumption + 50
    /\ can_fit_all_components(b.case, b)

\* C15: repair_compatibility of a Build that passes the four checks returns a
\* Build with the same eight slots, the same price and the same fitness.
C15_RepairKeepsValidBuild ==
    pc = "returned" /\ op.name = "repair" /\ ValidBuild(op.computer) =>
        /\ SameSlots(op.repaired, op.computer)
        /\ op.repaired.price = op.computer.price
        /\ op.repaired.fitness = op.computer.fitness

\* C16: calculate_fitness never fails with a division by zero, for
\* min_price <= max_price (a Build priced at min_price = max_price included),
\* a CPU or GPU of price 0, a CPU drawing no power or no GPU; it returns a
\* number, and the term of a zero price or a zero power draw is 0.
C16_FitnessNeverDividesByZero ==
    op.name = "fitness" =>
        /\ pc # "ZeroDivisionError"
        /\ pc = "returned" =>
              /\ op.result.fitness \in Int
              /\ CPU[op.computer.cpu].price = 0 =>
                    points_for_relation_quality_cpu(op.computer) = 0
              /\ op.computer.gpu # NoGPU /\ GPU[op.computer.gpu].price = 0 =>
                    points_for_relation_quality_gpu(op.computer) = 0
              /\ CPU[op.computer.cpu].power_consumption = 0 =>
                    calculate_cooling_score(op.computer) = 0

\* C17: for min_price < max_price the price-range term (in thousandths) is 0
\* for a price outside [min_price, max_price] and 1 - |price - mid| / halfRange
\* otherwise: 1 at the midpoint, 0 at either bound; for [8000, 15000] a price
\* of 11500 scores 1 and a price of 20000 scores 0.
C17_PriceRangeTerm ==
    pc = "returned" /\ op.name = "fitness"
    /\ op.user_preferences.min_price < op.user_preferences.max_price =>
        LET lo == op.user_preferences.min_price
            hi == op.user_preferences.max_price
            price == op.computer.price
            term == op.result.price_range
        IN  /\ price < lo \/ price > hi => term = 0
            /\ lo <= price /\ price <= hi =>
                  \* 1000 - term is 1000 |2 price - (lo + hi)| / (hi - lo), rounded down
                  /\ (1000 - term) * (hi - lo) <= 1000 * Abs(2 * price - (lo + hi))
                  /\ 1000 * Abs(2 * price - (lo + hi)) < (1000 - term + 1) * (hi - lo)
            /\ 2 * price = lo + hi => term = 1000
            /\ price = lo \/ price = hi => term = 0
            /\ lo = 8000 /\ hi = 15000 /\ price = 11500 => term = 1000
            /\ lo = 8000 /\ hi = 15000 /\ price = 20000 => term = 0

\* C17 witness: a Build priced 11500 scored 1 on the term for [8000, 15000]
C17_Witness ==
    /\ pc = "returned"
    /\ op.name = "fitness"
    /\ op.user_preferences.min_price = 8000
    /\ op.user_preferences.max_price = 15000
    /\ op.computer.price = 11500
    /\ op.result.price_range = 1000

\* the object keeps its eight slots, its price and its fitness
Untouched(ref) ==
    /\ SameSlots(op.heap'[ref], op.heap[ref])
    /\ op.heap'[ref].price = op.heap[ref].price
    /\ op.heap'[ref].fitness = op.heap[ref].fitness

\* C18: crossover, mutate and repair_compatibility leave the slots, the price
\* and the fitness of the objects passed to them as they were, and no object
\* of the current population, elite or recorded best case changes while the
\* children are produced.
C18_NoOperatorAliasesItsInput ==
    [][op.name = "heap" =>
         /\ \A i \in 1..Len(op.passed') : Untouched(op.passed'[i])
         /\ \A i \in 1..Len(op.population) : Untouched(op.population[i])
         /\ \A i \in 1..Len(op.best_cases) : Untouched(op.best_cases[i])
         /\ \A ref \in 1..Len(op.heap) : Untouched(ref) \/ ref \in {op.child1', op.child2'}
         /\ {op.child1', op.child2'} \cap Range(op.population) = {}]_vars

\* C18 witness: a deep copy of a member of the population was mutated into a
\* Build with another CPU, and the children were scored and appended
C18_Witness ==
    /\ op.name = "heap"
    /\ pc = "appended"
    /\ Len(op.next_generation) > 1
    /\ \E i \in 1..Len(op.population) :
          \E ref \in (Len(op.population) + 1)..Len(op.heap) :
              /\ \A slot \in Slots \ {"cpu"} : op.heap[ref][slot] = op.heap[i][slot]
              /\ op.heap[ref].cpu # op.heap[i].cpu
              /\ op.heap[ref].fitness = op.heap[i].fitness

\* what the returned statistics must say about the run that produced them
StatisticsConsistent ==
    /\ stats.generations_completed = generation + 1
    /\ Len(stats.history.best_fitness_history) = stats.generations_completed
    /\ Len(stats.history.worst_fitness_history) = stats.generations_completed
    /\ Len(stats.history.avg_fitness_history) = stats.generations_completed
    /\ Len(stats.history.diversity_history) = stats.generations_completed
    /\ stats.final_population_size = Len(population)
    /\ stats.history.final_diversity =
          IF Len(diversity_history) > 0
          THEN diversity_history[Len(diversity_history)] ELSE 0

\* C19: for every generations >= 0, run returns normally (the end of the loop
\* is never followed by an UnboundLocalError), and the statistics it returns
\* are consistent: generations_completed is the number of generations
\* executed, the four histories have that many entries, final_population_size
\* is the size of the final population and final_diversity is the last
\* recorded diversity, or 0 when none was recorded.
C19_StatisticsConsistent ==
    /\ pc # "UnboundLocalError"
    /\ pc = "done" => StatisticsConsistent

\* round(n / d) for n >= 0 and d > 0: the nearest integer, the even one of the
\* two when n / d lies halfway between them
RoundDiv(n, d) ==
    LET q == n \div d
        r == n % d
    IN  IF 2 * r < d THEN q
        ELSE IF 2 * r > d THEN q + 1
        ELSE IF q % 2 = 0 THEN q ELSE q + 1

\* C20: for every effective population_size >= 4 and every elitism_percentage
\* in [0, 1], the number of Builds carried over as elites is
\* max(1, round(population_size * elitism_percentage)), the product rounded
\* to the nearest integer.
C20_EliteCountRounds ==
    (op.name = "select_elite" /\ pc = "returned")
        => Len(op.elites) =
             Max(1, RoundDiv(op.generator.population_size
                               * op.generator.elitism_percentage, 100))

\* |best[-1] - best[-20]| < 0.001 on a history of at least 20 entries
WindowConverged(best) ==
    /\ Len(best) >= 20
    /\ Abs(best[Len(best)].fitness - best[Len(best) - 19].fitness) < 1

\* C21: when a generation completes, the loop stops early exactly when more
\* than 20 generations have elapsed (the generation completed is the 21st or a
\* later one), the best-fitness history has at least 20 entries and
\* |best[-1] - best[-20]| < 0.001; it never stops early while 20 or fewer
\* generations have elapsed.
C21_EarlyStopRule ==
    [][(pc = "while" /\ pc' \in {"for", "break"})
          => (pc' = "break"
                <=> (Len(best_cases') > 20 /\ WindowConverged(best_cases')))]_vars

\* C22: at every generation boundary, after initialization and after each
\* generation, every Build of the population stores the fitness that
\* calculate_fitness gives for the Build as it is: children are scored after
\* the mutation and the optional repair, initial individuals after their
\* construction, and elites keep their score.
C22_FitnessIsThatOfTheBuild ==
    AtBoundary =>
        \A b \in Range(population) :
            b.fitness = calculate_fitness(b, cfg.user_preferences)

\* C22 witness: a generation ended with a population holding a child that a
\* mutation changed after its copy (its stored price is not that of its
\* components) next to a Build of the initial population kept as elite
C22_Witness ==
    /\ pc = "for"
    /\ generation >= 0
    /\ \E b \in Range(population) : b.price # ComponentsPrice(b)
    /\ \E b \in Range(population) : b \in Range(generation0)

\* min(1, (performance / price) * 100 / 100) for the CPU, in thousandths
StatedCpuValue(c) ==
    IF CPU[c.cpu].price <= 0 THEN 0
    ELSE Min(1000, (CPU[c.cpu].performance * 1000) \div CPU[c.cpu].price)

\* min(1, (power / price) * 650 / 100) for the GPU, in thousandths
StatedGpuValue(c) ==
    IF c.gpu = NoGPU THEN 0
    ELSE IF GPU[c.gpu].price <= 0 THEN 0
    ELSE Min(1000, (GPU[c.gpu].power * 6500) \div GPU[c.gpu].price)

\* C23: for every Build the CPU value term of the fitness is
\* min(1, (CPU.performance / CPU.price) * 100 / 100) and the GPU value term is
\* min(1, (GPU.power / GPU.price) * 650 / 100); the GPU term is 0 without a
\* GPU, and either term is 0 when the price of the component is not positive.
C23_ValueForMoneyTerms ==
    (op.name = "fitness" /\ pc = "returned")
        => /\ op.result.cpu_value = StatedCpuValue(op.computer)
           /\ op.result.gpu_value = StatedGpuValue(op.computer)

\* C24: on a catalog whose lists are all non-empty,
\* create_heuristic_individual returns a Build for every usage category and
\* every GPU list, a list holding only the None entry or no GPU of power 40
\* or more included: it never raises.
C24_HeuristicSeedingNeverFails ==
    op.name = "create_heuristic_individual" => pc # "IndexError"

\* a Computer as its constructor leaves it, before a fitness is assigned
Unscored(c) == [c EXCEPT !.fitness = 0]

\* C25: the population initialize(size) returns has exactly size Builds; the
\* first size // 3 are Builds the heuristic constructor can build, the other
\* size - size // 3 are draws of one entry per slot from the catalog, and
\* every Build carries the fitness the FitnessCalculator computes for it.
C25_InitializeReturnsSizeBuilds ==
    (op.name = "initialize" /\ pc = "returned")
        => /\ Len(op.population) = op.population_size
           /\ \A i \in 1..Len(op.population) :
                 /\ IF i <= op.population_size \div 3
                    THEN Unscored(op.population[i])
                           \in create_heuristic_individual(op.lists, op.user_preferences)
                    ELSE Unscored(op.population[i])
                           \in create_random_individual(op.lists)
                 /\ op.population[i].fitness
                      = calculate_fitness(op.population[i], op.user_preferences)

\* C25 witness: a population of 5 was returned whose heuristic individual has
\* the CPU the motherboard accepts and whose last random individual has the
\* CPU it does not accept, which the heuristic never chooses
C25_Witness ==
    /\ op.name = "initialize"
    /\ pc = "returned"
    /\ op.population_size = 5
    /\ Len(op.population) = 5
    /\ is_cpu_compatible(op.population[1].motherboard, op.population[1].cpu)
    /\ ~is_cpu_compatible(op.population[5].motherboard, op.population[5].cpu)
    /\ op.population[5].fitness > 0

\* C26: the usage-match score, the raw score of UsageScorer divided by 30, is
\* in [0, 1] for every Build and each of the seven usage categories (the raw
\* score is at most 30), and it is 0 for a category UsageScorer does not know.
C26_UsageScoreInUnitInterval ==
    (op.name = "get_usage_score" /\ pc = "returned")
        => /\ 0 <= op.result.raw_score /\ op.result.raw_score <= 30
           /\ 0 <= op.result.usage_score /\ op.result.usage_score <= 1000
           /\ op.user_preferences.usage \notin UsageCategories
                 => op.result.usage_score = 0

\* C26 witness: a Build reached the raw score of 30 for "juegos", whose first
\* bucket alone is worth 12
C26_Witness ==
    /\ op.name = "get_usage_score"
    /\ pc = "returned"
    /\ op.user_preferences.usage = "juegos"
    /\ op.result.raw_score = 30
    /\ op.result.usage_score = 1000

\* C27: with adaptive mutation, for every base rate in [0, 1], an update for
\* a diversity below 0.3 leaves a mutation rate of at least the base rate, and
\* an update for a diversity above 0.7 a rate of at most the base rate.
C27_AdaptiveMutationDirection ==
    (op.name = "update_mutation_rate" /\ Len(op.diversities) > 0
        /\ op.adaptive_mutation)
        => LET d == op.diversities[Len(op.diversities)]
           IN  /\ d < 1800 => op.mutation_rate >= op.base_mutation_rate
               /\ d > 4200 => op.mutation_rate <= op.base_mutation_rate

\* the sub-scores of a fitness, in the order of calculate_fitness
SubScores ==
    {"price_range", "compatibility", "usage_match", "power_balance", "bottleneck",
     "cpu_value", "gpu_value", "cooling", "case"}

\* the seven configurable weights and the two fixed weights of 5
SumOfWeights ==
    fitness_weights.price_range + fitness_weights.compatibility
    + fitness_weights.usage_match + fitness_weights.power_balance
    + fitness_weights.bottleneck + fitness_weights.value_cpu
    + fitness_weights.value_gpu + 5 + 5

\* C28: every sub-score of the fitness (price range, compatibility, usage
\* match, power balance, bottleneck, CPU value, GPU value, cooling, case) is
\* in [0, 1] for every Build, the power balance for a PSU/total-load ratio in
\* [1.0, 1.2) included, and the fitness is at most the sum of the weights.
C28_SubScoresInUnitInterval ==
    (op.name = "fitness" /\ pc = "returned")
        => /\ \A term \in SubScores :
                 0 <= op.result[term] /\ op.result[term] <= 1000
           /\ op.result.fitness <= 1000 * SumOfWeights

\* the compatibility checks that apply to a Build, all passed
PassesEveryCheck(c) ==
    /\ is_cpu_compatible(c.motherboard, c.cpu)
    /\ is_ram_compatible(c.motherboard, c.ram)
    /\ c.gpu # NoGPU => 10 * GPU[c.gpu].power_consumption <= 7 * PSU[c.psu].capacity
    /\ Cooling[c.cooling].cooling_capacity >= CPU[c.cpu].power_consumption
    /\ can_fit_all_components(c.case, c)

\* C29: a Build has the compatibility sub-score 1.0 only if it passes every
\* check that applies to it (CPU/motherboard, RAM/motherboard, GPU power
\* within 0.7 of the PSU capacity when there is a GPU, cooling capacity at
\* least the CPU power draw, case fits all components), and a Build failing
\* the CPU/motherboard check scores strictly below 1.0.
C29_FullCompatibilityNeedsEveryCheck ==
    (op.name = "fitness" /\ pc = "returned")
        => /\ op.result.compatibility = 1000 => PassesEveryCheck(op.computer)
           /\ ~is_cpu_compatible(op.computer.motherboard, op.computer.cpu)
                 => op.result.compatibility < 1000

\* C30: for the Build r that repair_compatibility returns, (i) if the catalog
\* holds a RAM compatible with the motherboard of r, the RAM of r is
\* compatible with it, (ii) if the catalog holds a PSU of a capacity of at
\* least the total draw of r (CPU + GPU + motherboard + 50), the PSU of r has
\* at least that capacity, (iii) if the catalog holds a case that fits the
\* components of r, the case of r fits them; and r has the GPU, the storage
\* and the cooling of the Build passed.
C30_LaterFixesStand ==
    (op.name = "repair" /\ pc = "returned")
        => LET r == op.repaired
           IN  /\ (\E m \in op.lists.rams : is_ram_compatible(r.motherboard, m))
                     => is_ram_compatible(r.motherboard, r.ram)
               /\ (\E p \in op.lists.psus : PSU[p].capacity >= total_power(r))
                     => PSU[r.psu].capacity >= total_power(r)
               /\ (\E k \in op.lists.cases : can_fit_all_components(k, r))
                     => can_fit_all_components(r.case, r)
               /\ r.gpu = op.computer.gpu
               /\ r.storage = op.computer.storage
               /\ r.cooling = op.computer.cooling

\* C30 witness: the first fix-up replaced the motherboard of a Build whose
\* RAM fitted the motherboard it had, and the RAM and the PSU returned are
\* those of later fix-ups made for the new motherboard
C30_Witness ==
    /\ op.name = "repair"
    /\ pc = "returned"
    /\ is_ram_compatible(op.computer.motherboard, op.computer.ram)
    /\ op.repaired.motherboard # op.computer.motherboard
    /\ op.repaired.ram # op.computer.ram
    /\ is_ram_compatible(op.repaired.motherboard, op.repaired.ram)
    /\ op.repaired.psu # op.computer.psu
    /\ PSU[op.repaired.psu].capacity >= total_power(op.repaired)

====
